---- MODULE Spec2Model ----
(***************************************************************************)
(* Model of the provider client layer of terraform-provider: the           *)
(* configuration state machine of the three Provider implementations found *)
(* in the sources, the type lookups, and the resource operations built on  *)
(* the dynamic value codec adapter and the diagnostics model.              *)
(*                                                                         *)
(*   "p6atomic"  src/unnamed/part_000   (protocol6, atomic.Bool flag)      *)
(*   "p5"        src/unnamed/part_003   (protocol5, bool + *sync.Mutex)    *)
(*   "p6mutex"   src/tfprovider/internal/protocol6/provider.go             *)
(*                                      (protocol6, bool + *sync.Mutex)    *)
(***************************************************************************)
EXTENDS Integers, Sequences, FiniteSets, TLC

\* ------------------------------------------------------------------ bounds

\* Number of goroutines calling into one provider concurrently.
NumCallers == 2
\* Total number of provider calls (Configure and type lookups) started.
MaxCalls == 3

Callers == 1..NumCallers

Impls == {"p6atomic", "p5", "p6mutex"}
MutexImpls == {"p5", "p6mutex"}

\* Go's nil, for pointers, interfaces and absent messages.
Nil == "nil"
\* The absent record: what a field holds when there is no request, answer or
\* result to hold.
None == [none |-> TRUE]

\* ------------------------------------------------------------- diagnostics

\* common.DiagnosticSeverity: Error is the zero value (iota).
Error == 0
Warning == 1

\* cty.Path(nil): the empty attribute path.
NoPath == <<>>

Diag(sev, summary) == [Severity |-> sev, Summary |-> summary, Attribute |-> NoPath]

\* A HasErrors that looks at the first entry only.
HasErrorsFirst(diags) == diags # <<>> /\ diags[1].Severity = Error

\* Diagnostics.HasErrors: some entry has Error severity.
HasErrors(diags) == \E i \in 1..Len(diags) : diags[i].Severity = Error

\* common.ErrorDiagnostics(summary, detail, err): one Error diagnostic. The
\* detail text (detail + ": " + err.Error()) is free text and is not modelled.
ErrorDiagnostics(summary) == << Diag(Error, summary) >>

\* common.RPCErrorDiagnostics(err): nil for a nil error, else one Error
\* diagnostic with the fixed summary.
RPCErrorDiagnostics(err) ==
    IF err = Nil THEN <<>> ELSE << Diag(Error, "RPC communication error") >>

AlreadyConfiguredDiags == << Diag(Error, "Provider already configured") >>
UnconfiguredDiags == << Diag(Error, "Provider unconfigured") >>
InvalidResourceTypeDiags == << Diag(Error, "Invalid resource type") >>

\* ----------------------------------------------------- attribute path codec

\* Wire steps: the selector of a tfplugin AttributePath_Step. "unset" is a step
\* with no (or an unrecognised) selector.
WireStep(kind, v) == [kind |-> kind, v |-> v]

\* A *tfplugin.AttributePath: the nil pointer, or a message with its steps.
NilWirePath == [nil |-> TRUE, Steps |-> <<>>]
WirePath(steps) == [nil |-> FALSE, Steps |-> steps]

\* cty path steps produced by Path.GetAttr and Path.Index; Nil is the
\* placeholder appended for an unrecognised selector.
decodeStep(raw) ==
    CASE raw.kind = "AttributeName"    -> [step |-> "GetAttr", Name |-> raw.v]
      [] raw.kind = "ElementKeyString" -> [step |-> "Index", Key |-> [ty |-> "string", v |-> raw.v]]
      [] raw.kind = "ElementKeyInt"    -> [step |-> "Index", Key |-> [ty |-> "number", v |-> raw.v]]
      [] OTHER                         -> [step |-> Nil]

\* A decodeAttributePath that leaves out the steps it does not recognise.
decodeAttributePathKnown(raws) ==
    IF raws.nil \/ Len(raws.Steps) = 0 THEN NoPath
    ELSE SelectSeq([i \in 1..Len(raws.Steps) |-> decodeStep(raws.Steps[i])],
                   LAMBDA st : st.step # Nil)

\* decodeAttributePath: nil for an absent or empty step list, else one path
\* step per wire step, in order. A wire path is NilWirePath or WirePath(steps).
decodeAttributePath(raws) ==
    IF raws.nil \/ Len(raws.Steps) = 0 THEN NoPath
    ELSE [i \in 1..Len(raws.Steps) |-> decodeStep(raws.Steps[i])]

\* Wire diagnostics: [Severity: "INVALID" | "ERROR" | "WARNING", Summary,
\* Attribute: wire path].
WireDiag(sev, summary) ==
    [Severity |-> sev, Summary |-> summary, Attribute |-> NilWirePath]

\* A severity switch that takes any unlisted code for a warning.
decodeSeverityLenient(sev) ==
    CASE sev = "ERROR" -> Error
      [] OTHER         -> Warning

\* The switch of decodeDiagnostics: ERROR and WARNING are mapped, any other
\* code leaves the zero value of DiagnosticSeverity.
decodeSeverity(sev) ==
    CASE sev = "ERROR"   -> Error
      [] sev = "WARNING" -> Warning
      [] OTHER           -> 0

\* A decodeDiagnostics that keeps the errors only.
decodeDiagnosticsErrors(raws) ==
    SelectSeq([i \in 1..Len(raws) |->
                  [Severity  |-> decodeSeverity(raws[i].Severity),
                   Summary   |-> raws[i].Summary,
                   Attribute |-> decodeAttributePath(raws[i].Attribute)]],
              LAMBDA d : d.Severity = Error)

\* decodeDiagnostics: one diagnostic per wire diagnostic, in wire order.
decodeDiagnostics(raws) ==
    [i \in 1..Len(raws) |->
        [Severity  |-> decodeSeverity(raws[i].Severity),
         Summary   |-> raws[i].Summary,
         Attribute |-> decodeAttributePath(raws[i].Attribute)]]

\* ------------------------------------------------------------ dynamic values

\* A cty.Value: its type, whether it is null, and its content. The types are
\* the implied types of the schema's blocks.
Val(ty, v) == [ty |-> ty, null |-> FALSE, v |-> v]
NullVal(ty) == [ty |-> ty, null |-> TRUE, v |-> 0]
\* cty.DynamicVal, the placeholder DecodeDynamicValue returns on failure.
DynamicVal == [ty |-> "dynamic", null |-> FALSE, v |-> 0]
\* cty.NilVal, the zero cty.Value of an empty response struct.
NilVal == [ty |-> "nil-value", null |-> FALSE, v |-> 0]

IsNull(val) == val.null

\* A tfschema.Block, reduced to the type it implies. NilBlock is the nil
\* *tfschema.Block.
Block(ty) == [implied |-> ty]
NilBlock == [implied |-> Nil]
ImpliedType(block) == block.implied

NoBytes == <<>>

\* A Marshal that does not write whether the value is null.
MsgpackMarshalNoNull(val, ty) ==
    IF val.ty = ty THEN [err |-> Nil, raw |-> << "msgpack", val.ty, FALSE, val.v >>]
    ELSE [err |-> "wrong type", raw |-> NoBytes]

\* msgpack.Marshal(val, ty) and json/msgpack Unmarshal(bytes, ty) of go-cty:
\* a value is serialised only against its own type, and bytes are read back
\* only against the type they were written for. Bytes are tagged tuples.
MsgpackMarshal(val, ty) ==
    IF val.ty = ty THEN [err |-> Nil, raw |-> << "msgpack", val.ty, val.null, val.v >>]
    ELSE [err |-> "wrong type", raw |-> NoBytes]

Unmarshal(format, raw, ty) ==
    IF Len(raw) = 4 /\ raw[1] = format /\ raw[2] = ty
    THEN [err |-> Nil, val |-> [ty |-> raw[2], null |-> raw[3], v |-> raw[4]]]
    ELSE [err |-> "does not conform", val |-> NilVal]

JSONBytes(val) == << "json", val.ty, val.null, val.v >>
MsgpackBytes(val) == << "msgpack", val.ty, val.null, val.v >>
Garbage == << "garbage" >>

\* An EncodeDynamicValue that hands out the bytes of the value as it is when
\* the value does not have the required type.
EncodeDynamicValuePartial(val, schema) ==
    LET ty == ImpliedType(schema)
        m  == MsgpackMarshal(val, ty)
    IN  IF m.err # Nil
        THEN [data |-> [JSON |-> NoBytes, Msgpack |-> MsgpackBytes(val)],
              diags |-> ErrorDiagnostics("Invalid object")]
        ELSE [data |-> [JSON |-> NoBytes, Msgpack |-> m.raw], diags |-> <<>>]

\* A DecodeDynamicValue whose default case reports nothing.
DecodeDynamicValueSilent(data, schema) ==
    LET ty == ImpliedType(schema) IN
    CASE Len(data.JSON) > 0 ->
            LET u == Unmarshal("json", data.JSON, ty)
            IN  IF u.err # Nil
                THEN [val |-> DynamicVal, diags |-> ErrorDiagnostics("Provider returned invalid object")]
                ELSE [val |-> u.val, diags |-> <<>>]
      [] Len(data.JSON) = 0 /\ Len(data.Msgpack) > 0 ->
            LET u == Unmarshal("msgpack", data.Msgpack, ty)
            IN  IF u.err # Nil
                THEN [val |-> DynamicVal, diags |-> ErrorDiagnostics("Provider returned invalid object")]
                ELSE [val |-> u.val, diags |-> <<>>]
      [] OTHER -> [val |-> DynamicVal, diags |-> <<>>]

\* common.EncodeDynamicValue: msgpack only; on failure no bytes and one
\* "Invalid object" diagnostic.
EncodeDynamicValue(val, schema) ==
    LET ty == ImpliedType(schema)
        m  == MsgpackMarshal(val, ty)
    IN  IF m.err # Nil
        THEN [data |-> [JSON |-> NoBytes, Msgpack |-> NoBytes],
              diags |-> ErrorDiagnostics("Invalid object")]
        ELSE [data |-> [JSON |-> NoBytes, Msgpack |-> m.raw], diags |-> <<>>]

\* common.DecodeDynamicValue: the switch tests the JSON bytes first, then the
\* msgpack bytes, and reports an unsupported format when both are empty.
DecodeDynamicValue(data, schema) ==
    LET ty == ImpliedType(schema) IN
    CASE Len(data.JSON) > 0 ->
            LET u == Unmarshal("json", data.JSON, ty)
            IN  IF u.err # Nil
                THEN [val |-> DynamicVal, diags |-> ErrorDiagnostics("Provider returned invalid object")]
                ELSE [val |-> u.val, diags |-> <<>>]
      [] Len(data.JSON) = 0 /\ Len(data.Msgpack) > 0 ->
            LET u == Unmarshal("msgpack", data.Msgpack, ty)
            IN  IF u.err # Nil
                THEN [val |-> DynamicVal, diags |-> ErrorDiagnostics("Provider returned invalid object")]
                ELSE [val |-> u.val, diags |-> <<>>]
      [] OTHER ->
            [val |-> DynamicVal,
             diags |-> << Diag(Error, "Provider using unsupported response format") >>]

\* A *tfplugin.DynamicValue: the nil pointer, or a message with its two byte
\* fields.
NilDV == [nil |-> TRUE, Json |-> NoBytes, Msgpack |-> NoBytes]
DV(json, msgpack) == [nil |-> FALSE, Json |-> json, Msgpack |-> msgpack]

\* encodeDynamicValue of the protocol packages: nil on error, else the wire
\* DynamicValue carrying the encoded bytes.
encodeDynamicValue(val, schema) ==
    LET r == EncodeDynamicValue(val, schema)
    IN  IF HasErrors(r.diags)
        THEN [dv |-> NilDV, diags |-> r.diags]
        ELSE [dv |-> DV(r.data.JSON, r.data.Msgpack), diags |-> <<>>]

\* decodeDynamicValue of the protocol packages.
decodeDynamicValue(raw, schema) ==
    DecodeDynamicValue([JSON |-> raw.Json, Msgpack |-> raw.Msgpack], schema)

\* ------------------------------------------------------------------ schema

\* The schema loadSchema returned when the provider was constructed. It is
\* read-only afterwards. loadSchema always fills ProviderConfig and
\* ProviderMeta with a block (decodeProviderSchemaBlock never returns nil).
ManagedNames == {"res_a", "res_b"}
DataNames == {"data_a"}
TypeNames == ManagedNames \cup DataNames \cup {"missing"}

Schema ==
    [ProviderConfig       |-> Block("cfg"),
     ProviderMeta         |-> Block("meta"),
     ManagedResourceTypes |-> [n \in ManagedNames |-> [Version |-> 1, Content |-> Block(n)]],
     DataResourceTypes    |-> [n \in DataNames |-> [Content |-> Block(n)]]]

\* p.client, the client stub of the provider's connection.
Conn == "conn"

\* ------------------------------------------------------------------- state

VARIABLES
    impl,        \* which Provider implementation this provider is
    configured,  \* p.configured
    mu,          \* p.configuredMu: "absent" (p6atomic has none), "nil",
                 \* "unlocked" or "locked"
    aborted,     \* the process died of an unrecovered run-time panic
    call,        \* per caller: the Configure or lookup call it is in or has finished
    ncalls,      \* number of calls started so far
    succeeded,   \* history: some Configure call has returned without error
    op           \* the resource operation that returned in the last step, if any,
                 \* with its inputs and its outcome

vars == << impl, configured, mu, aborted, call, ncalls, succeeded, op >>

\* What a call observed at its check of the flag (history, for the claims):
\* whether a Configure had already succeeded, and whether another Configure
\* was between its check of the flag and its return.
Pending(u) == call[u].op = "Configure" /\ call[u].pc = "rpc"
Observed(t) ==
    [succeeded |-> succeeded,
     pending   |-> \E u \in Callers \ {t} : Pending(u),
     first     |-> ncalls = 0]
NoObserved == [succeeded |-> FALSE, pending |-> FALSE, first |-> FALSE]

IdleCall ==
    [op |-> "none", pc |-> "idle", arg |-> None, diags |-> <<>>, res |-> None,
     encoded |-> <<>>, sent |-> <<>>, ans |-> None, seen |-> NoObserved]

NoOp == [kind |-> "none", rt |-> None, req |-> None, ans |-> None, out |-> None]

\* The inputs callers pass and the answers the remote process gives.
GoodConfig == Val("cfg", 1)
ConfigValues == {GoodConfig, Val("res_a", 1)}

WireDiagSeqs ==
    { <<>>, << WireDiag("WARNING", "deprecated") >>, << WireDiag("ERROR", "rejected") >>,
      << WireDiag("WARNING", "deprecated"), WireDiag("INVALID", "unclassified") >> }

\* An RPC either fails at transport level (err) or returns a response.
Unavailable == "rpc error: unavailable"
TransportFailure == [err |-> Unavailable, resp |-> None]
ConfigureAnswers ==
    { TransportFailure }
    \cup { [err |-> Nil, resp |-> [Diagnostics |-> d]] : d \in WireDiagSeqs }

\* NewProvider: the provider literal sets client, plugin and schema (and, in
\* the mutex versions, configured: false). configuredMu is a *sync.Mutex that
\* the literal leaves out, so it is nil; atomic.Bool starts false.
NewProvider(i) ==
    [configured |-> FALSE, mu |-> IF i \in MutexImpls THEN "nil" ELSE "absent"]

InitWith(i, m) ==
    /\ impl = i
    /\ configured = NewProvider(i).configured
    /\ mu = m
    /\ aborted = FALSE
    /\ call = [t \in Callers |-> IdleCall]
    /\ ncalls = 0
    /\ succeeded = FALSE
    /\ op = NoOp

Init == \E i \in Impls : InitWith(i, NewProvider(i).mu)

\* The same provider once its guard has been allocated (configuredMu set to a
\* fresh &sync.Mutex{}), next to the provider as NewProvider leaves it. Every
\* statement after a Lock() call in the mutex versions runs in these states
\* only.
InitMu ==
    \E i \in Impls :
        \E m \in (IF i \in MutexImpls THEN {"nil", "unlocked"} ELSE {"absent"}) :
            InitWith(i, m)

CanStart(t) ==
    /\ ~aborted
    /\ call[t].pc \in {"idle", "done"}
    /\ ncalls < MaxCalls

\* sync.Mutex.Lock on the guard: a nil *sync.Mutex is dereferenced (run-time
\* panic), a locked one blocks the caller, an unlocked one is acquired.
LockOutcome == CASE mu = "nil" -> "panic" [] mu = "locked" -> "block" [] OTHER -> "acquired"

Panicked(t, o, a) ==
    [op |-> o, pc |-> "panicked", arg |-> a, diags |-> <<>>, res |-> None,
     encoded |-> <<>>, sent |-> <<>>, ans |-> None, seen |-> Observed(t)]

Done(t, o, a, diags, res, encoded, sent, ans, seen) ==
    [op |-> o, pc |-> "done", arg |-> a, diags |-> diags, res |-> res,
     encoded |-> encoded, sent |-> sent, ans |-> ans, seen |-> seen]

\* ---------------------------------------------------------------- Configure

\* A Swap that reports the flag as unset whatever it was: what Configure would
\* do without its check of the flag.
SwapBlind(old) == [old |-> FALSE, new |-> TRUE]

\* A Swap that reads the flag and leaves it as it was.
SwapUnset(old) == [old |-> old, new |-> old]

\* p.configured.Swap(true) of part_000: the flag is set, the old value decides.
Swap(old) == [old |-> old, new |-> TRUE]

\* Configure up to its RPC, p6atomic: Swap, then encode, then send.
ConfigureBeginAtomic(t, config) ==
    LET sw == Swap(configured)
        e  == encodeDynamicValue(config, Schema.ProviderConfig)
    IN  /\ configured' = sw.new
        /\ UNCHANGED << mu, aborted >>
        /\ call' = [call EXCEPT ![t] =
              IF sw.old
              THEN Done(t, "Configure", config, AlreadyConfiguredDiags, None, <<>>, <<>>, None, Observed(t))
              ELSE IF HasErrors(e.diags)
              THEN Done(t, "Configure", config, e.diags, None, << "Config" >>, <<>>, None, Observed(t))
              ELSE [op |-> "Configure", pc |-> "rpc", arg |-> config, diags |-> e.diags,
                    res |-> None, encoded |-> << "Config" >>,
                    sent |-> << [rpc |-> "ConfigureProvider", Config |-> e.dv] >>,
                    ans |-> None, seen |-> Observed(t)]]

\* Configure up to its RPC, p5 and p6mutex: Lock (with the deferred Unlock on
\* each return), the check of p.configured, then encode, then send.
ConfigureBeginMutex(t, config) ==
    LET e == encodeDynamicValue(config, Schema.ProviderConfig)
    IN  /\ LockOutcome # "block"
        /\ UNCHANGED configured
        /\ IF LockOutcome = "panic"
           THEN /\ aborted' = TRUE
                /\ mu' = mu
                /\ call' = [call EXCEPT ![t] = Panicked(t, "Configure", config)]
           ELSE /\ aborted' = aborted
                /\ IF configured
                   THEN /\ mu' = "unlocked"
                        /\ call' = [call EXCEPT ![t] =
                              Done(t, "Configure", config, AlreadyConfiguredDiags, None, <<>>, <<>>, None, Observed(t))]
                   ELSE IF HasErrors(e.diags)
                   THEN /\ mu' = "unlocked"
                        /\ call' = [call EXCEPT ![t] =
                              Done(t, "Configure", config, e.diags, None, << "Config" >>, <<>>, None, Observed(t))]
                   ELSE /\ mu' = "locked"
                        /\ call' = [call EXCEPT ![t] =
                              [op |-> "Configure", pc |-> "rpc", arg |-> config, diags |-> e.diags,
                               res |-> None, encoded |-> << "Config" >>,
                               sent |-> << [rpc |-> "Configure", Config |-> e.dv] >>,
                               ans |-> None, seen |-> Observed(t)]]

ConfigureBegin(t) ==
    /\ CanStart(t)
    /\ \E config \in ConfigValues :
        /\ ncalls' = ncalls + 1
        /\ op' = NoOp
        /\ UNCHANGED << impl, succeeded >>
        /\ IF impl = "p6atomic" THEN ConfigureBeginAtomic(t, config)
                                ELSE ConfigureBeginMutex(t, config)

\* The diagnostics Configure returns once its RPC has come back.
ConfigureDiags(diags, ans) ==
    IF ans.err # Nil
    THEN diags \o RPCErrorDiagnostics(ans.err)
    ELSE (diags \o RPCErrorDiagnostics(ans.err)) \o decodeDiagnostics(ans.resp.Diagnostics)

\* A Configure that stores false after every RPC.
FlagAfterAtomicCleared(flag, diags, ans) == FALSE

\* part_000 after the RPC: the flag is stored false only when the response
\* was received and the diagnostics hold an error; a transport error returns
\* before that.
FlagAfterAtomic(flag, diags, ans) ==
    IF ans.err = Nil /\ HasErrors(diags) THEN FALSE ELSE flag

\* A Configure that sets the flag whenever the remote process answered.
FlagAfterMutexAnswered(flag, diags, ans) ==
    IF ans.err = Nil THEN TRUE ELSE flag

\* part_003 and provider.go after the RPC: the flag is set only when the
\* response was received and the diagnostics hold no error.
FlagAfterMutex(flag, diags, ans) ==
    IF ans.err = Nil /\ ~HasErrors(diags) THEN TRUE ELSE flag

\* Configure from the return of its RPC to its own return.
ConfigureRespond(t) ==
    /\ ~aborted
    /\ Pending(t)
    /\ \E ans \in ConfigureAnswers :
        LET diags == ConfigureDiags(call[t].diags, ans) IN
        /\ configured' = IF impl = "p6atomic"
                         THEN FlagAfterAtomic(configured, diags, ans)
                         ELSE FlagAfterMutex(configured, diags, ans)
        /\ mu' = IF impl = "p6atomic" THEN mu ELSE "unlocked"
        /\ call' = [call EXCEPT ![t] =
              Done(t, "Configure", call[t].arg, diags, None, call[t].encoded, call[t].sent, ans,
                   call[t].seen)]
        /\ succeeded' = (succeeded \/ ~HasErrors(diags))
        /\ op' = NoOp
        /\ UNCHANGED << impl, aborted, ncalls >>

\* ------------------------------------------------------------- type lookups

\* A resource type client: the fields of ManagedResourceType / DataResourceType.
Client(kind, typeName, schema, meta) ==
    [kind |-> kind, client |-> Conn, typeName |-> typeName, schema |-> schema,
     providerMetaSchema |-> meta]
\* The nil client.
NoClient ==
    [kind |-> Nil, client |-> Nil, typeName |-> Nil, schema |-> [Content |-> NilBlock],
     providerMetaSchema |-> NilBlock]

\* Provider.ManagedResourceType of part_000: (client, error).
ManagedResourceTypeAtomic(flag, typeName) ==
    IF ~flag THEN [rt |-> NoClient, err |-> "provider not configured"]
    ELSE IF typeName \notin DOMAIN Schema.ManagedResourceTypes
    THEN [rt |-> NoClient, err |-> "managed resource type not found"]
    ELSE [rt  |-> Client("managed", typeName, Schema.ManagedResourceTypes[typeName],
                         Schema.ProviderMeta),
          err |-> Nil]

\* Provider.DataResourceType of part_000: (client, error).
DataResourceTypeAtomic(flag, typeName) ==
    IF ~flag THEN [rt |-> NoClient, err |-> "provider not configured"]
    ELSE IF typeName \notin DOMAIN Schema.DataResourceTypes
    THEN [rt |-> NoClient, err |-> "data resource type not found"]
    ELSE [rt  |-> Client("data", typeName, Schema.DataResourceTypes[typeName],
                         Schema.ProviderMeta),
          err |-> Nil]

\* Provider.ManagedResourceType of part_003 and provider.go, after Lock: the
\* only result is the client (nil on either failure); the client literal sets
\* client, typeName and schema. The guard is unlocked only past the check.
ManagedResourceTypeMutex(flag, typeName) ==
    IF ~flag THEN [rt |-> NoClient, err |-> Nil, mu |-> "locked"]
    ELSE IF typeName \notin DOMAIN Schema.ManagedResourceTypes
    THEN [rt |-> NoClient, err |-> Nil, mu |-> "unlocked"]
    ELSE [rt  |-> Client("managed", typeName, Schema.ManagedResourceTypes[typeName], NilBlock),
          err |-> Nil, mu |-> "unlocked"]

ManagedResourceTypeCall(t) ==
    /\ CanStart(t)
    /\ \E typeName \in TypeNames :
        /\ ncalls' = ncalls + 1
        /\ op' = NoOp
        /\ UNCHANGED << impl, configured, succeeded >>
        /\ IF impl = "p6atomic"
           THEN /\ UNCHANGED << mu, aborted >>
                /\ call' = [call EXCEPT ![t] =
                      Done(t, "ManagedResourceType", [typeName |-> typeName], <<>>,
                           ManagedResourceTypeAtomic(configured, typeName), <<>>, <<>>, None,
                           Observed(t))]
           ELSE /\ LockOutcome # "block"
                /\ IF LockOutcome = "panic"
                   THEN /\ aborted' = TRUE
                        /\ mu' = mu
                        /\ call' = [call EXCEPT ![t] = Panicked(t, "ManagedResourceType", [typeName |-> typeName])]
                   ELSE LET r == ManagedResourceTypeMutex(configured, typeName) IN
                        /\ aborted' = aborted
                        /\ mu' = r.mu
                        /\ call' = [call EXCEPT ![t] =
                              Done(t, "ManagedResourceType", [typeName |-> typeName], <<>>,
                                   [rt |-> r.rt, err |-> r.err], <<>>, <<>>, None, Observed(t))]

\* DataResourceType is a method of the part_000 provider only.
DataResourceTypeCall(t) ==
    /\ CanStart(t)
    /\ impl = "p6atomic"
    /\ \E typeName \in TypeNames :
        /\ ncalls' = ncalls + 1
        /\ op' = NoOp
        /\ UNCHANGED << impl, configured, mu, aborted, succeeded >>
        /\ call' = [call EXCEPT ![t] =
              Done(t, "DataResourceType", [typeName |-> typeName], <<>>,
                   DataResourceTypeAtomic(configured, typeName), <<>>, <<>>, None, Observed(t))]

\* ------------------------------------------------------ resource operations

\* What an operation did: the result and diagnostics it returned, the encode
\* and decode steps it ran (in order) and the RPC requests it issued.
Out(res, diags, encoded, sent, decoded) ==
    [returned |-> TRUE, res |-> res, diags |-> diags, encoded |-> encoded,
     sent |-> sent, decoded |-> decoded]
PanicOut ==
    [returned |-> FALSE, res |-> None, diags |-> <<>>, encoded |-> <<>>,
     sent |-> <<>>, decoded |-> <<>>]

NoBlob == <<>>
Blob == << 7 >>
RespBlob == << 9 >>
\* The private blobs of requests and of responses.
PrivateBlobs == {Blob, Blob \o RespBlob}
RespBlobs == {RespBlob, RespBlob \o Blob}

\* common.ManagedResourcePlanResponse{} and common.PlanResourceChangeResponse{}
EmptyManagedResourcePlanResponse ==
    [PlannedState |-> NilVal, RequiresReplace |-> <<>>, OpaquePrivate |-> NoBlob]
EmptyPlanResourceChangeResponse ==
    [PlannedState |-> NilVal, RequiresReplace |-> <<>>, PlannedPrivate |-> NoBlob]

\* A RequiresReplace loop that lists the paths last to first.
decodeRequiresReplaceReversed(raws) ==
    [i \in 1..Len(raws) |-> decodeAttributePath(raws[Len(raws) + 1 - i])]

decodeRequiresReplace(raws) == [i \in 1..Len(raws) |-> decodeAttributePath(raws[i])]

\* ManagedResourceType.Plan of the protocol5 package (part_002). ans is what
\* the PlanResourceChange RPC gives back if it is issued.
Plan(rt, req, ans) ==
    LET content == rt.schema.Content
        e1 == encodeDynamicValue(req.PriorState, content)
        e2 == encodeDynamicValue(req.ProposedNewState, content)
        e3 == encodeDynamicValue(req.Config, content)
        withMeta == ~IsNull(req.ProviderMeta) /\ rt.providerMetaSchema # NilBlock
        e4 == IF withMeta THEN encodeDynamicValue(req.ProviderMeta, rt.providerMetaSchema)
                          ELSE [dv |-> NilDV, diags |-> <<>>]
        d1 == e1.diags
        d2 == d1 \o e2.diags
        d3 == d2 \o e3.diags
        d4 == d3 \o e4.diags
        enc3 == << "PriorState", "ProposedNewState", "Config" >>
        enc4 == IF withMeta THEN Append(enc3, "ProviderMeta") ELSE enc3
        request ==
            [rpc |-> "PlanResourceChange", TypeName |-> rt.typeName,
             PriorState |-> e1.dv, ProposedNewState |-> e2.dv, Config |-> e3.dv,
             PriorPrivate |-> req.OpaquePrivate, ProviderMeta |-> e4.dv]
        d5 == d4 \o RPCErrorDiagnostics(ans.err)
        d6 == d5 \o decodeDiagnostics(ans.resp.Diagnostics)
        hasState == ~ans.resp.PlannedState.nil
        dec == IF hasState THEN decodeDynamicValue(ans.resp.PlannedState, content)
                           ELSE [val |-> NilVal, diags |-> <<>>]
        result ==
            [PlannedState    |-> dec.val,
             RequiresReplace |-> decodeRequiresReplace(ans.resp.RequiresReplace),
             OpaquePrivate   |-> ans.resp.PlannedPrivate]
    IN  IF HasErrors(e1.diags)
        THEN Out(EmptyManagedResourcePlanResponse, d1, << "PriorState" >>, <<>>, <<>>)
        ELSE IF HasErrors(e2.diags)
        THEN Out(EmptyManagedResourcePlanResponse, d2, << "PriorState", "ProposedNewState" >>, <<>>, <<>>)
        ELSE IF HasErrors(e3.diags)
        THEN Out(EmptyManagedResourcePlanResponse, d3, enc3, <<>>, <<>>)
        ELSE IF withMeta /\ HasErrors(e4.diags)
        THEN Out(EmptyManagedResourcePlanResponse, d4, enc4, <<>>, <<>>)
        ELSE IF ans.err # Nil
        THEN Out(EmptyManagedResourcePlanResponse, d5, enc4, << request >>, <<>>)
        ELSE Out(result, d6 \o dec.diags, enc4, << request >>,
                 IF hasState THEN << "PlannedState" >> ELSE <<>>)

\* Provider.requireConfigured, between its Lock and Unlock.
requireConfigured(flag) == IF ~flag THEN UnconfiguredDiags ELSE <<>>

\* Provider.validateResourceType
validateResourceType(typeName) ==
    IF typeName \notin DOMAIN Schema.ManagedResourceTypes
    THEN [schema |-> Nil, diags |-> InvalidResourceTypeDiags]
    ELSE [schema |-> Schema.ManagedResourceTypes[typeName], diags |-> <<>>]

\* Provider.commonResourceValidation
commonResourceValidation(flag, typeName) ==
    IF HasErrors(requireConfigured(flag))
    THEN [schema |-> Nil, diags |-> requireConfigured(flag)]
    ELSE validateResourceType(typeName)

\* An encodePlanValues that encodes all three values before it looks at the
\* diagnostics.
encodePlanValuesAll(schema, prior, proposed, config) ==
    LET e1 == encodeDynamicValue(prior, schema.Content)
        e2 == encodeDynamicValue(proposed, schema.Content)
        e3 == encodeDynamicValue(config, schema.Content)
    IN  [Prior |-> e1.dv, Proposed |-> e2.dv, Config |-> e3.dv,
         diags |-> (e1.diags \o e2.diags) \o e3.diags,
         encoded |-> << "PriorState", "ProposedNewState", "Config" >>]

\* Provider.encodePlanValues: prior, proposed, config, stopping at the first
\* encode that yields an error.
encodePlanValues(schema, prior, proposed, config) ==
    LET e1 == encodeDynamicValue(prior, schema.Content)
        e2 == encodeDynamicValue(proposed, schema.Content)
        e3 == encodeDynamicValue(config, schema.Content)
    IN  IF HasErrors(e1.diags)
        THEN [Prior |-> e1.dv, Proposed |-> NilDV, Config |-> NilDV, diags |-> e1.diags,
              encoded |-> << "PriorState" >>]
        ELSE IF HasErrors(e2.diags)
        THEN [Prior |-> e1.dv, Proposed |-> e2.dv, Config |-> NilDV,
              diags |-> e1.diags \o e2.diags,
              encoded |-> << "PriorState", "ProposedNewState" >>]
        ELSE [Prior |-> e1.dv, Proposed |-> e2.dv, Config |-> e3.dv,
              diags |-> (e1.diags \o e2.diags) \o e3.diags,
              encoded |-> << "PriorState", "ProposedNewState", "Config" >>]

\* Provider.encodeProviderMeta
encodeProviderMeta(providerMeta) ==
    IF IsNull(providerMeta) THEN [dv |-> NilDV, diags |-> <<>>, encoded |-> <<>>]
    ELSE LET e == encodeDynamicValue(providerMeta, Schema.ProviderMeta)
         IN  [dv |-> e.dv, diags |-> e.diags, encoded |-> << "ProviderMeta" >>]

\* Provider.PlanResourceChange of part_003, after requireConfigured has read
\* the flag. provider.go has the same statements with the helpers inlined.
PlanResourceChange(flag, req, ans) ==
    LET v  == commonResourceValidation(flag, req.TypeName)
        ev == encodePlanValues(v.schema, req.PriorState, req.ProposedNewState, req.Config)
        em == encodeProviderMeta(req.ProviderMeta)
        d2 == ev.diags \o em.diags
        request ==
            [rpc |-> "PlanResourceChange", TypeName |-> req.TypeName,
             PriorState |-> ev.Prior, ProposedNewState |-> ev.Proposed, Config |-> ev.Config,
             PriorPrivate |-> req.PriorPrivate, ProviderMeta |-> em.dv]
        d3 == d2 \o RPCErrorDiagnostics(ans.err)
        d4 == d3 \o decodeDiagnostics(ans.resp.Diagnostics)
        hasState == ~ans.resp.PlannedState.nil
        dec == IF hasState THEN decodeDynamicValue(ans.resp.PlannedState, v.schema.Content)
                           ELSE [val |-> NilVal, diags |-> <<>>]
        result ==
            [PlannedState    |-> dec.val,
             RequiresReplace |-> decodeRequiresReplace(ans.resp.RequiresReplace),
             PlannedPrivate  |-> ans.resp.PlannedPrivate]
    IN  IF HasErrors(v.diags)
        THEN Out(EmptyPlanResourceChangeResponse, v.diags, <<>>, <<>>, <<>>)
        ELSE IF HasErrors(ev.diags)
        THEN Out(EmptyPlanResourceChangeResponse, ev.diags, ev.encoded, <<>>, <<>>)
        ELSE IF HasErrors(em.diags)
        THEN Out(EmptyPlanResourceChangeResponse, d2, ev.encoded \o em.encoded, <<>>, <<>>)
        ELSE IF ans.err # Nil
        THEN Out(EmptyPlanResourceChangeResponse, d3, ev.encoded \o em.encoded, << request >>, <<>>)
        ELSE Out(result, d4 \o dec.diags, ev.encoded \o em.encoded, << request >>,
                 IF hasState THEN << "PlannedState" >> ELSE <<>>)

\* Inputs of the Plan operations and answers of the PlanResourceChange RPC.
GoodState == Val("res_a", 1)
StateValues == {GoodState, Val("cfg", 1)}
MetaValues == {NullVal("meta"), Val("meta", 1), Val("res_a", 1)}

\* The clients ManagedResourceType returns for "res_a": with the provider
\* meta schema (part_000) and without it (part_003, provider.go).
PlanClients ==
    { Client("managed", "res_a", Schema.ManagedResourceTypes["res_a"], m) :
        m \in {NilBlock, Schema.ProviderMeta} }

ManagedResourcePlanRequests ==
    [PriorState : StateValues, ProposedNewState : StateValues, Config : StateValues,
     OpaquePrivate : {Blob}, ProviderMeta : MetaValues]

PlanResourceChangeRequests ==
    [TypeName : {"res_a", "missing"}, PriorState : StateValues,
     ProposedNewState : StateValues, Config : StateValues,
     PriorPrivate : {Blob}, ProviderMeta : MetaValues]

WireValues ==
    { NilDV,
      DV(NoBytes, MsgpackBytes(Val("res_a", 2))),
      DV(NoBytes, MsgpackBytes(Val("res_b", 2))),
      DV(NoBytes, NoBytes) }

WirePathLists ==
    { <<>>,
      << WirePath(<< WireStep("AttributeName", "id") >>),
         WirePath(<< WireStep("ElementKeyInt", 0) >>) >> }

PlanAnswers ==
    { TransportFailure }
    \cup { [err |-> Nil, resp |-> r] :
             r \in [Diagnostics : WireDiagSeqs, PlannedState : WireValues,
                    RequiresReplace : WirePathLists, PlannedPrivate : {RespBlob}] }

\* The answer an operation consumed: none when it issued no RPC.
Consumed(out, ans) == IF out.sent = <<>> THEN None ELSE ans

\* The answers to try for an operation: every answer when the operation
\* issues its RPC, a single one (which it never reads) when it does not.
AnswersFor(out, answers) == IF out.sent = <<>> THEN {TransportFailure} ELSE answers

\* A resource operation can start while the call budget lasts. op holds the
\* operation that returned in the last step; two resource operations in a row
\* are not explored, since the first changes nothing the second reads.
CanOperate ==
    /\ ~aborted
    /\ op = NoOp
    /\ ncalls < MaxCalls

\* A Plan call on a resource type client of the protocol5 package. The call
\* reads and writes nothing of the provider; its RPC is blocking, so the call
\* is one step for every other caller.
PlanCall ==
    /\ CanOperate
    /\ impl = "p5"
    /\ \E rt \in PlanClients : \E req \in ManagedResourcePlanRequests :
      \E ans \in AnswersFor(Plan(rt, req, TransportFailure), PlanAnswers) :
        LET out == Plan(rt, req, ans) IN
        /\ ncalls' = ncalls + 1
        /\ op' = [kind |-> "Plan", rt |-> rt, req |-> req, ans |-> Consumed(out, ans), out |-> out]
        /\ UNCHANGED << impl, configured, mu, aborted, call, succeeded >>

\* Provider.PlanResourceChange of part_003 and provider.go. requireConfigured
\* locks and unlocks the guard around its read of the flag; nothing else of the
\* provider is read or written.
PlanResourceChangeCall ==
    /\ CanOperate
    /\ impl \in MutexImpls
    /\ LockOutcome # "block"
    /\ \E req \in PlanResourceChangeRequests :
      \E ans \in AnswersFor(PlanResourceChange(configured, req, TransportFailure), PlanAnswers) :
        LET out == PlanResourceChange(configured, req, ans) IN
        /\ ncalls' = ncalls + 1
        /\ aborted' = (LockOutcome = "panic")
        /\ op' = IF LockOutcome = "panic"
                 THEN [kind |-> "PlanResourceChange", rt |-> None, req |-> req, ans |-> None,
                       out |-> PanicOut]
                 ELSE [kind |-> "PlanResourceChange", rt |-> None, req |-> req,
                       ans |-> Consumed(out, ans), out |-> out]
        /\ UNCHANGED << impl, configured, mu, call, succeeded >>

\* Provider.PrepareConfig of part_000 and provider.go: the config is encoded
\* for the check alone, and handed back as it came.
PrepareConfigV6(config) ==
    LET e == encodeDynamicValue(config, Schema.ProviderConfig)
    IN  Out([Value |-> config], e.diags, << "Config" >>, <<>>, <<>>)

\* A PrepareConfig of part_003 that hands back the caller's config whatever
\* the response carries.
PrepareConfigV5Echo(config, ans) ==
    LET e  == encodeDynamicValue(config, Schema.ProviderConfig)
        request == [rpc |-> "PrepareProviderConfig", Config |-> e.dv]
        d1 == e.diags \o RPCErrorDiagnostics(ans.err)
        d2 == d1 \o decodeDiagnostics(ans.resp.Diagnostics)
    IN  IF HasErrors(e.diags)
        THEN Out([Value |-> config], e.diags, << "Config" >>, <<>>, <<>>)
        ELSE IF ans.err # Nil
        THEN Out([Value |-> config], d1, << "Config" >>, << request >>, <<>>)
        ELSE Out([Value |-> config], d2, << "Config" >>, << request >>, <<>>)

\* A PrepareConfig of part_003 that falls back to the caller's config when the
\* response carries no prepared config.
PrepareConfigV5Fallback(config, ans) ==
    LET e  == encodeDynamicValue(config, Schema.ProviderConfig)
        request == [rpc |-> "PrepareProviderConfig", Config |-> e.dv]
        d1 == e.diags \o RPCErrorDiagnostics(ans.err)
        d2 == d1 \o decodeDiagnostics(ans.resp.Diagnostics)
        dec == decodeDynamicValue(ans.resp.PreparedConfig, Schema.ProviderConfig)
    IN  IF HasErrors(e.diags)
        THEN Out([Value |-> config], e.diags, << "Config" >>, <<>>, <<>>)
        ELSE IF ans.err # Nil
        THEN Out([Value |-> config], d1, << "Config" >>, << request >>, <<>>)
        ELSE IF ~ans.resp.PreparedConfig.nil
        THEN Out([Value |-> dec.val], d2 \o dec.diags, << "Config" >>, << request >>,
                 << "PreparedConfig" >>)
        ELSE Out([Value |-> config], d2, << "Config" >>, << request >>, <<>>)

\* Provider.PrepareConfig of part_003: encode, the PrepareProviderConfig RPC,
\* then the prepared config of the response if there is one.
PrepareConfigV5(config, ans) ==
    LET e  == encodeDynamicValue(config, Schema.ProviderConfig)
        request == [rpc |-> "PrepareProviderConfig", Config |-> e.dv]
        d1 == e.diags \o RPCErrorDiagnostics(ans.err)
        d2 == d1 \o decodeDiagnostics(ans.resp.Diagnostics)
        dec == decodeDynamicValue(ans.resp.PreparedConfig, Schema.ProviderConfig)
    IN  IF HasErrors(e.diags)
        THEN Out([Value |-> config], e.diags, << "Config" >>, <<>>, <<>>)
        ELSE IF ans.err # Nil
        THEN Out([Value |-> config], d1, << "Config" >>, << request >>, <<>>)
        ELSE IF ~ans.resp.PreparedConfig.nil
        THEN Out([Value |-> dec.val], d2 \o dec.diags, << "Config" >>, << request >>,
                 << "PreparedConfig" >>)
        ELSE Out([Value |-> DynamicVal], d2, << "Config" >>, << request >>, <<>>)

PrepareConfig(i, config, ans) ==
    IF i = "p5" THEN PrepareConfigV5(config, ans) ELSE PrepareConfigV6(config)

PrepareAnswers ==
    { TransportFailure }
    \cup { [err |-> Nil, resp |-> r] :
             r \in [Diagnostics : WireDiagSeqs,
                    PreparedConfig : {NilDV, DV(NoBytes, MsgpackBytes(Val("cfg", 2))),
                                      DV(NoBytes, MsgpackBytes(Val("res_a", 2)))}] }

\* A PrepareConfig call: it takes no guard and reads no flag.
PrepareConfigCall ==
    /\ CanOperate
    /\ \E config \in ConfigValues :
        \E ans \in AnswersFor(PrepareConfig(impl, config, TransportFailure), PrepareAnswers) :
          LET out == PrepareConfig(impl, config, ans) IN
          /\ ncalls' = ncalls + 1
          /\ op' = [kind |-> "PrepareConfig", rt |-> None, req |-> [Config |-> config],
                    ans |-> Consumed(out, ans), out |-> out]
          /\ UNCHANGED << impl, configured, mu, aborted, call, succeeded >>

\* ------------------------------------- operations of the resource type clients

\* The zero values of the response structs.
EmptyManagedResourceReadResponse == [RefreshedValue |-> NilVal, OpaquePrivate |-> NoBlob]
EmptyManagedResourceApplyResponse == [NewState |-> NilVal, OpaquePrivate |-> NoBlob]
EmptyManagedResourceImportResponse == [ImportedResources |-> <<>>]
EmptyDataResourceReadResponse == [State |-> NilVal]
EmptyApplyResourceChangeResponse == [NewState |-> NilVal, Private |-> NoBlob]
EmptyImportResourceStateResponse == [ImportedResources |-> <<>>]

\* The encode of the provider meta value in the resource type clients: it runs
\* only for a non-null value on a client that holds a provider meta schema.
WithMeta(rt, providerMeta) == ~IsNull(providerMeta) /\ rt.providerMetaSchema # NilBlock
encodeClientMeta(rt, providerMeta) ==
    IF WithMeta(rt, providerMeta)
    THEN LET e == encodeDynamicValue(providerMeta, rt.providerMetaSchema)
         IN  [dv |-> e.dv, diags |-> e.diags, encoded |-> << "ProviderMeta" >>]
    ELSE [dv |-> NilDV, diags |-> <<>>, encoded |-> <<>>]

\* The decode of a state payload that may be absent (the `!= nil` tests).
decodeOptional(raw, block) ==
    IF raw.nil THEN [val |-> NilVal, diags |-> <<>>, decoded |-> <<>>]
    ELSE LET d == decodeDynamicValue(raw, block)
         IN  [val |-> d.val, diags |-> d.diags, decoded |-> << "State" >>]

\* A ValidateConfig that goes on to its RPC whatever the encode reported.
ValidateConfigUnchecked(rt, config, ans) ==
    LET e == encodeDynamicValue(config, rt.schema.Content)
        request == [rpc |-> "ValidateResourceTypeConfig", TypeName |-> rt.typeName,
                    Config |-> e.dv]
    IN  Out(None, e.diags \o RPCErrorDiagnostics(ans.err), << "Config" >>, << request >>, <<>>)

\* ManagedResourceType.ValidateConfig (part_002) and DataResourceType
\* .ValidateConfig (data_resource_type.go): the same statements, with the RPC
\* of the client's kind.
ValidateConfig(rt, config, ans) ==
    LET e == encodeDynamicValue(config, rt.schema.Content)
        request ==
            [rpc |-> IF rt.kind = "managed" THEN "ValidateResourceTypeConfig"
                                            ELSE "ValidateDataResourceConfig",
             TypeName |-> rt.typeName, Config |-> e.dv]
        d1 == e.diags \o RPCErrorDiagnostics(ans.err)
    IN  IF HasErrors(e.diags)
        THEN Out(None, e.diags, << "Config" >>, <<>>, <<>>)
        ELSE IF ans.err # Nil
        THEN Out(None, d1, << "Config" >>, << request >>, <<>>)
        ELSE Out(None, d1 \o decodeDiagnostics(ans.resp.Diagnostics), << "Config" >>,
                 << request >>, <<>>)

\* A Read that hands the private blob of the request back to the caller.
ReadEchoPrivate(rt, req, ans) ==
    LET e == encodeDynamicValue(req.PreviousValue, rt.schema.Content)
        request ==
            [rpc |-> "ReadResource", TypeName |-> rt.typeName, CurrentState |-> e.dv,
             Private |-> req.OpaquePrivate]
        d1 == e.diags \o RPCErrorDiagnostics(ans.err)
        d2 == d1 \o decodeDiagnostics(ans.resp.Diagnostics)
        dec == decodeOptional(ans.resp.NewState, rt.schema.Content)
    IN  IF HasErrors(e.diags)
        THEN Out(EmptyManagedResourceReadResponse, e.diags, << "PreviousValue" >>, <<>>, <<>>)
        ELSE IF ans.err # Nil
        THEN Out(EmptyManagedResourceReadResponse, d1, << "PreviousValue" >>, << request >>, <<>>)
        ELSE Out([RefreshedValue |-> dec.val, OpaquePrivate |-> req.OpaquePrivate],
                 d2 \o dec.diags, << "PreviousValue" >>, << request >>, dec.decoded)

\* ManagedResourceType.Read (part_002)
Read(rt, req, ans) ==
    LET e == encodeDynamicValue(req.PreviousValue, rt.schema.Content)
        request ==
            [rpc |-> "ReadResource", TypeName |-> rt.typeName, CurrentState |-> e.dv,
             Private |-> req.OpaquePrivate]
        d1 == e.diags \o RPCErrorDiagnostics(ans.err)
        d2 == d1 \o decodeDiagnostics(ans.resp.Diagnostics)
        dec == decodeOptional(ans.resp.NewState, rt.schema.Content)
    IN  IF HasErrors(e.diags)
        THEN Out(EmptyManagedResourceReadResponse, e.diags, << "PreviousValue" >>, <<>>, <<>>)
        ELSE IF ans.err # Nil
        THEN Out(EmptyManagedResourceReadResponse, d1, << "PreviousValue" >>, << request >>, <<>>)
        ELSE Out([RefreshedValue |-> dec.val, OpaquePrivate |-> ans.resp.Private],
                 d2 \o dec.diags, << "PreviousValue" >>, << request >>, dec.decoded)

\* ManagedResourceType.Apply (part_002)
Apply(rt, req, ans) ==
    LET content == rt.schema.Content
        e1 == encodeDynamicValue(req.PriorState, content)
        e2 == encodeDynamicValue(req.PlannedState, content)
        e3 == encodeDynamicValue(req.Config, content)
        e4 == encodeClientMeta(rt, req.ProviderMeta)
        d1 == e1.diags
        d2 == d1 \o e2.diags
        d3 == d2 \o e3.diags
        d4 == d3 \o e4.diags
        enc3 == << "PriorState", "PlannedState", "Config" >>
        enc4 == enc3 \o e4.encoded
        request ==
            [rpc |-> "ApplyResourceChange", TypeName |-> rt.typeName,
             PriorState |-> e1.dv, PlannedState |-> e2.dv, Config |-> e3.dv,
             PlannedPrivate |-> req.OpaquePrivate, ProviderMeta |-> e4.dv]
        d5 == d4 \o RPCErrorDiagnostics(ans.err)
        d6 == d5 \o decodeDiagnostics(ans.resp.Diagnostics)
        dec == decodeOptional(ans.resp.NewState, content)
    IN  IF HasErrors(e1.diags)
        THEN Out(EmptyManagedResourceApplyResponse, d1, << "PriorState" >>, <<>>, <<>>)
        ELSE IF HasErrors(e2.diags)
        THEN Out(EmptyManagedResourceApplyResponse, d2, << "PriorState", "PlannedState" >>,
                 <<>>, <<>>)
        ELSE IF HasErrors(e3.diags)
        THEN Out(EmptyManagedResourceApplyResponse, d3, enc3, <<>>, <<>>)
        ELSE IF HasErrors(e4.diags)
        THEN Out(EmptyManagedResourceApplyResponse, d4, enc4, <<>>, <<>>)
        ELSE IF ans.err # Nil
        THEN Out(EmptyManagedResourceApplyResponse, d5, enc4, << request >>, <<>>)
        ELSE Out([NewState |-> dec.val, OpaquePrivate |-> ans.resp.Private],
                 d6 \o dec.diags, enc4, << request >>, dec.decoded)

\* DataResourceType.Read (data_resource_type.go of both protocol packages)
DataRead(rt, req, ans) ==
    LET e1 == encodeDynamicValue(req.Config, rt.schema.Content)
        e2 == encodeClientMeta(rt, req.ProviderMeta)
        d2 == e1.diags \o e2.diags
        enc2 == << "Config" >> \o e2.encoded
        request ==
            [rpc |-> "ReadDataSource", TypeName |-> rt.typeName, Config |-> e1.dv,
             ProviderMeta |-> e2.dv]
        d3 == d2 \o RPCErrorDiagnostics(ans.err)
        d4 == d3 \o decodeDiagnostics(ans.resp.Diagnostics)
        dec == decodeOptional(ans.resp.State, rt.schema.Content)
    IN  IF HasErrors(e1.diags)
        THEN Out(EmptyDataResourceReadResponse, e1.diags, << "Config" >>, <<>>, <<>>)
        ELSE IF HasErrors(e2.diags)
        THEN Out(EmptyDataResourceReadResponse, d2, enc2, <<>>, <<>>)
        ELSE IF ans.err # Nil
        THEN Out(EmptyDataResourceReadResponse, d3, enc2, << request >>, <<>>)
        ELSE Out([State |-> dec.val], d4 \o dec.diags, enc2, << request >>, dec.decoded)

\* What the body of an import loop makes of one entry of the response: the
\* diagnostics it appends, the resource it appends (none or one), the decode
\* it runs, and whether it dereferences a nil State (decodeDynamicValue reads
\* raw.Json and raw.Msgpack of the pointer it is given: a run-time panic).
EntryResult(diags, res, decoded, panic) ==
    [diags |-> diags, res |-> res, decoded |-> decoded, panic |-> panic]

RECURSIVE Flatten(_)
Flatten(seqs) == IF seqs = <<>> THEN <<>> ELSE Head(seqs) \o Flatten(Tail(seqs))

\* The loop body of ManagedResourceType.Import (part_002).
importedByClient(rt, imported) ==
    IF imported.TypeName # rt.typeName
    THEN EntryResult(<< Diag(Error, "Import type mismatch") >>, <<>>, <<>>, FALSE)
    ELSE IF imported.State.nil
    THEN EntryResult(<<>>, <<>>, <<>>, TRUE)
    ELSE LET d == decodeDynamicValue(imported.State, rt.schema.Content)
         IN  EntryResult(d.diags,
                         IF HasErrors(d.diags) THEN <<>>
                         ELSE << [TypeName |-> imported.TypeName, State |-> d.val,
                                  OpaquePrivate |-> imported.Private] >>,
                         << "State" >>, FALSE)

\* ManagedResourceType.Import (part_002)
Import(rt, req, ans) ==
    LET request == [rpc |-> "ImportResourceState", TypeName |-> rt.typeName, Id |-> req.ID]
        d1 == RPCErrorDiagnostics(ans.err)
        raws == ans.resp.ImportedResources
        steps == [i \in 1..Len(raws) |-> importedByClient(rt, raws[i])]
        d2 == (d1 \o decodeDiagnostics(ans.resp.Diagnostics))
                \o Flatten([i \in 1..Len(raws) |-> steps[i].diags])
    IN  IF ans.err # Nil
        THEN Out(EmptyManagedResourceImportResponse, d1, <<>>, << request >>, <<>>)
        ELSE IF \E i \in 1..Len(raws) : steps[i].panic
        THEN [PanicOut EXCEPT !.sent = << request >>]
        ELSE Out([ImportedResources |-> Flatten([i \in 1..Len(raws) |-> steps[i].res])],
                 d2, <<>>, << request >>,
                 Flatten([i \in 1..Len(raws) |-> steps[i].decoded]))

\* Provider.encodeApplyValues: prior, planned, config, stopping at the first
\* encode that yields an error.
encodeApplyValues(schema, prior, planned, config) ==
    LET e1 == encodeDynamicValue(prior, schema.Content)
        e2 == encodeDynamicValue(planned, schema.Content)
        e3 == encodeDynamicValue(config, schema.Content)
    IN  IF HasErrors(e1.diags)
        THEN [Prior |-> e1.dv, Planned |-> NilDV, Config |-> NilDV, diags |-> e1.diags,
              encoded |-> << "PriorState" >>]
        ELSE IF HasErrors(e2.diags)
        THEN [Prior |-> e1.dv, Planned |-> e2.dv, Config |-> NilDV,
              diags |-> e1.diags \o e2.diags,
              encoded |-> << "PriorState", "PlannedState" >>]
        ELSE [Prior |-> e1.dv, Planned |-> e2.dv, Config |-> e3.dv,
              diags |-> (e1.diags \o e2.diags) \o e3.diags,
              encoded |-> << "PriorState", "PlannedState", "Config" >>]

\* Provider.ApplyResourceChange of part_003, after requireConfigured has read
\* the flag. provider.go has the same statements with the helpers inlined.
ApplyResourceChange(flag, req, ans) ==
    LET v  == commonResourceValidation(flag, req.TypeName)
        ev == encodeApplyValues(v.schema, req.PriorState, req.PlannedState, req.Config)
        em == encodeProviderMeta(req.ProviderMeta)
        d2 == ev.diags \o em.diags
        request ==
            [rpc |-> "ApplyResourceChange", TypeName |-> req.TypeName,
             PriorState |-> ev.Prior, PlannedState |-> ev.Planned, Config |-> ev.Config,
             PlannedPrivate |-> req.PlannedPrivate, ProviderMeta |-> em.dv]
        d3 == d2 \o RPCErrorDiagnostics(ans.err)
        d4 == d3 \o decodeDiagnostics(ans.resp.Diagnostics)
        dec == decodeOptional(ans.resp.NewState, v.schema.Content)
    IN  IF HasErrors(v.diags)
        THEN Out(EmptyApplyResourceChangeResponse, v.diags, <<>>, <<>>, <<>>)
        ELSE IF HasErrors(ev.diags)
        THEN Out(EmptyApplyResourceChangeResponse, ev.diags, ev.encoded, <<>>, <<>>)
        ELSE IF HasErrors(em.diags)
        THEN Out(EmptyApplyResourceChangeResponse, d2, ev.encoded \o em.encoded, <<>>, <<>>)
        ELSE IF ans.err # Nil
        THEN Out(EmptyApplyResourceChangeResponse, d3, ev.encoded \o em.encoded,
                 << request >>, <<>>)
        ELSE Out([NewState |-> dec.val, Private |-> ans.resp.Private], d4 \o dec.diags,
                 ev.encoded \o em.encoded, << request >>, dec.decoded)

\* Provider.encodeCurrentValue: the current state against the type's block.
encodeCurrentValue(schema, current) ==
    LET e == encodeDynamicValue(current, schema.Content)
    IN  [Current |-> e.dv, diags |-> e.diags, encoded |-> << "CurrentState" >>]

EmptyReadResourceResponse == [NewState |-> NilVal, Private |-> NoBlob]

\* Provider.ReadResource of part_003 and provider.go, after requireConfigured
\* has read the flag.
ReadResource(flag, req, ans) ==
    LET v  == commonResourceValidation(flag, req.TypeName)
        ev == encodeCurrentValue(v.schema, req.CurrentState)
        em == encodeProviderMeta(req.ProviderMeta)
        d2 == ev.diags \o em.diags
        request ==
            [rpc |-> "ReadResource", TypeName |-> req.TypeName, CurrentState |-> ev.Current,
             Private |-> req.Private, ProviderMeta |-> em.dv]
        d3 == d2 \o RPCErrorDiagnostics(ans.err)
        d4 == d3 \o decodeDiagnostics(ans.resp.Diagnostics)
        dec == decodeOptional(ans.resp.NewState, v.schema.Content)
    IN  IF HasErrors(v.diags)
        THEN Out(EmptyReadResourceResponse, v.diags, <<>>, <<>>, <<>>)
        ELSE IF HasErrors(ev.diags)
        THEN Out(EmptyReadResourceResponse, ev.diags, ev.encoded, <<>>, <<>>)
        ELSE IF HasErrors(em.diags)
        THEN Out(EmptyReadResourceResponse, d2, ev.encoded \o em.encoded, <<>>, <<>>)
        ELSE IF ans.err # Nil
        THEN Out(EmptyReadResourceResponse, d3, ev.encoded \o em.encoded,
                 << request >>, <<>>)
        ELSE Out([NewState |-> dec.val, Private |-> ans.resp.Private], d4 \o dec.diags,
                 ev.encoded \o em.encoded, << request >>, dec.decoded)

\* The loop body of Provider.ImportResourceState (part_003, provider.go): an
\* entry of another type is decoded against that type's schema when the
\* provider has it.
importedByProvider(schema, typeName, imported) ==
    LET known == imported.TypeName \in DOMAIN Schema.ManagedResourceTypes
        importedSchema == IF imported.TypeName # typeName
                          THEN Schema.ManagedResourceTypes[imported.TypeName]
                          ELSE schema
    IN  IF imported.TypeName # typeName /\ ~known
        THEN EntryResult(<< Diag(Error, "Invalid imported resource type") >>, <<>>, <<>>, FALSE)
        ELSE IF imported.State.nil
        THEN EntryResult(<<>>, <<>>, <<>>, TRUE)
        ELSE LET d == decodeDynamicValue(imported.State, importedSchema.Content)
             IN  EntryResult(d.diags,
                             IF HasErrors(d.diags) THEN <<>>
                             ELSE << [TypeName |-> imported.TypeName, State |-> d.val,
                                      Private |-> imported.Private] >>,
                             << "State" >>, FALSE)

\* Provider.ImportResourceState of part_003, after requireConfigured has read
\* the flag.
ImportResourceState(flag, req, ans) ==
    LET v == commonResourceValidation(flag, req.TypeName)
        request == [rpc |-> "ImportResourceState", TypeName |-> req.TypeName, Id |-> req.ID]
        d1 == RPCErrorDiagnostics(ans.err)
        raws == ans.resp.ImportedResources
        steps == [i \in 1..Len(raws) |-> importedByProvider(v.schema, req.TypeName, raws[i])]
        d2 == (d1 \o decodeDiagnostics(ans.resp.Diagnostics))
                \o Flatten([i \in 1..Len(raws) |-> steps[i].diags])
    IN  IF HasErrors(v.diags)
        THEN Out(EmptyImportResourceStateResponse, v.diags, <<>>, <<>>, <<>>)
        ELSE IF ans.err # Nil
        THEN Out(EmptyImportResourceStateResponse, d1, <<>>, << request >>, <<>>)
        ELSE IF \E i \in 1..Len(raws) : steps[i].panic
        THEN [PanicOut EXCEPT !.sent = << request >>]
        ELSE Out([ImportedResources |-> Flatten([i \in 1..Len(raws) |-> steps[i].res])],
                 d2, <<>>, << request >>,
                 Flatten([i \in 1..Len(raws) |-> steps[i].decoded]))

\* Inputs of the operations and answers of their RPCs.
MaxImported == 2

DataClients ==
    { Client("data", "data_a", Schema.DataResourceTypes["data_a"], m) :
        m \in {NilBlock, Schema.ProviderMeta} }
DataValues == {Val("data_a", 1), Val("cfg", 1)}

ManagedResourceReadRequests == [PreviousValue : StateValues, OpaquePrivate : PrivateBlobs]
ManagedResourceApplyRequests ==
    [PriorState : StateValues, PlannedState : StateValues, Config : StateValues,
     OpaquePrivate : {Blob}, ProviderMeta : MetaValues]
ManagedResourceImportRequests == [ID : {"id-1"}]
DataResourceReadRequests == [Config : DataValues, ProviderMeta : MetaValues]
ApplyResourceChangeRequests ==
    [TypeName : {"res_a", "missing"}, PriorState : StateValues,
     PlannedState : StateValues, Config : StateValues,
     PlannedPrivate : {Blob}, ProviderMeta : MetaValues]
ImportResourceStateRequests == [TypeName : {"res_a", "missing"}, ID : {"id-1"}]
ReadResourceRequests ==
    [TypeName : {"res_a", "missing"}, CurrentState : StateValues,
     Private : PrivateBlobs, ProviderMeta : MetaValues]

\* Remote diagnostics: none, a warning, a warning followed by an error.
OpDiagSeqs ==
    { <<>>,
      << WireDiag("WARNING", "deprecated") >>,
      << WireDiag("WARNING", "deprecated"), WireDiag("ERROR", "rejected") >> }

DataWireValues ==
    { NilDV,
      DV(NoBytes, MsgpackBytes(Val("data_a", 2))),
      DV(NoBytes, MsgpackBytes(Val("res_b", 2))),
      DV(NoBytes, NoBytes) }

ValidateAnswers ==
    { TransportFailure }
    \cup { [err |-> Nil, resp |-> [Diagnostics |-> d]] : d \in OpDiagSeqs }
ReadAnswers ==
    { TransportFailure }
    \cup { [err |-> Nil, resp |-> r] :
             r \in [Diagnostics : OpDiagSeqs, NewState : WireValues, Private : RespBlobs] }
DataReadAnswers ==
    { TransportFailure }
    \cup { [err |-> Nil, resp |-> r] :
             r \in [Diagnostics : OpDiagSeqs, State : DataWireValues] }

\* Entries of an import response: of the requested type with a state that
\* decodes, of a type the schema does not have, of the requested type with a
\* state that does not decode, of another type of the schema, and of the
\* requested type without a state.
WireImported(typeName, state) == [TypeName |-> typeName, State |-> state, Private |-> RespBlob]
WireImportedEntries ==
    { WireImported("res_a", DV(NoBytes, MsgpackBytes(Val("res_a", 2)))),
      WireImported("ghost", DV(NoBytes, MsgpackBytes(Val("res_a", 3)))),
      WireImported("res_a", DV(NoBytes, Garbage)),
      WireImported("res_b", DV(NoBytes, MsgpackBytes(Val("res_b", 2)))),
      WireImported("res_a", NilDV) }
WireImportedLists ==
    UNION { [1..n -> WireImportedEntries] : n \in 0..MaxImported }
ImportAnswers ==
    { TransportFailure }
    \cup { [err |-> Nil, resp |-> r] :
             r \in [Diagnostics : OpDiagSeqs, ImportedResources : WireImportedLists] }

\* An operation of a resource type client: it reads and writes nothing of the
\* provider. A run-time panic in it ends the process.
ClientOperation(kind, rt, req, out, ans) ==
    /\ ncalls' = ncalls + 1
    /\ aborted' = ~out.returned
    /\ op' = [kind |-> kind, rt |-> rt, req |-> req, ans |-> Consumed(out, ans), out |-> out]
    /\ UNCHANGED << impl, configured, mu, call, succeeded >>

\* An operation of the provider of part_003 and provider.go: requireConfigured
\* locks and unlocks the guard around its read of the flag.
ProviderOperation(kind, req, out, ans) ==
    /\ ncalls' = ncalls + 1
    /\ aborted' = (LockOutcome = "panic" \/ ~out.returned)
    /\ op' = IF LockOutcome = "panic"
             THEN [kind |-> kind, rt |-> None, req |-> req, ans |-> None, out |-> PanicOut]
             ELSE [kind |-> kind, rt |-> None, req |-> req, ans |-> Consumed(out, ans),
                   out |-> out]
    /\ UNCHANGED << impl, configured, mu, call, succeeded >>

ValidateConfigCall ==
    /\ CanOperate
    /\ \E rt \in PlanClients \cup DataClients :
        /\ rt.kind = "managed" => impl = "p5"
        /\ \E config \in StateValues \cup DataValues :
            \E ans \in AnswersFor(ValidateConfig(rt, config, TransportFailure), ValidateAnswers) :
              ClientOperation("ValidateConfig", rt, [Config |-> config],
                              ValidateConfig(rt, config, ans), ans)

ReadCall ==
    /\ CanOperate
    /\ impl = "p5"
    /\ \E rt \in PlanClients : \E req \in ManagedResourceReadRequests :
        \E ans \in AnswersFor(Read(rt, req, TransportFailure), ReadAnswers) :
          ClientOperation("Read", rt, req, Read(rt, req, ans), ans)

ApplyCall ==
    /\ CanOperate
    /\ impl = "p5"
    /\ \E rt \in PlanClients : \E req \in ManagedResourceApplyRequests :
        \E ans \in AnswersFor(Apply(rt, req, TransportFailure), ReadAnswers) :
          ClientOperation("Apply", rt, req, Apply(rt, req, ans), ans)

ImportCall ==
    /\ CanOperate
    /\ impl = "p5"
    /\ \E rt \in PlanClients : \E req \in ManagedResourceImportRequests :
        \E ans \in ImportAnswers :
          ClientOperation("Import", rt, req, Import(rt, req, ans), ans)

DataReadCall ==
    /\ CanOperate
    /\ \E rt \in DataClients : \E req \in DataResourceReadRequests :
        \E ans \in AnswersFor(DataRead(rt, req, TransportFailure), DataReadAnswers) :
          ClientOperation("DataRead", rt, req, DataRead(rt, req, ans), ans)

ApplyResourceChangeCall ==
    /\ CanOperate
    /\ impl \in MutexImpls
    /\ LockOutcome # "block"
    /\ \E req \in ApplyResourceChangeRequests :
        \E ans \in AnswersFor(ApplyResourceChange(configured, req, TransportFailure), ReadAnswers) :
          ProviderOperation("ApplyResourceChange", req,
                            ApplyResourceChange(configured, req, ans), ans)

ReadResourceCall ==
    /\ CanOperate
    /\ impl \in MutexImpls
    /\ LockOutcome # "block"
    /\ \E req \in ReadResourceRequests :
        \E ans \in AnswersFor(ReadResource(configured, req, TransportFailure), ReadAnswers) :
          ProviderOperation("ReadResource", req, ReadResource(configured, req, ans), ans)

ImportResourceStateCall ==
    /\ CanOperate
    /\ impl \in MutexImpls
    /\ LockOutcome # "block"
    /\ \E req \in ImportResourceStateRequests :
        \E ans \in AnswersFor(ImportResourceState(configured, req, TransportFailure),
                              ImportAnswers) :
          ProviderOperation("ImportResourceState", req,
                            ImportResourceState(configured, req, ans), ans)


\* Provider.ValidateManagedResourceConfig of part_003 and provider.go: the
\* config is encoded against the provider's own config block and the request
\* literal sets Config only, so its TypeName is the empty string. typeName is
\* not read. No guard is taken and the flag is not read.
ValidateManagedResourceConfig(i, typeName, config, ans) ==
    LET e == encodeDynamicValue(config, Schema.ProviderConfig)
        request ==
            [rpc |-> IF i = "p5" THEN "ValidateResourceTypeConfig"
                                 ELSE "ValidateResourceConfig",
             TypeName |-> "", Config |-> e.dv]
        d1 == e.diags \o RPCErrorDiagnostics(ans.err)
    IN  IF HasErrors(e.diags)
        THEN Out(None, e.diags, << "Config" >>, <<>>, <<>>)
        ELSE IF ans.err # Nil
        THEN Out(None, d1, << "Config" >>, << request >>, <<>>)
        ELSE Out(None, d1 \o decodeDiagnostics(ans.resp.Diagnostics), << "Config" >>,
                 << request >>, <<>>)

\* Provider.ValidateDataResourceConfig of part_003 and provider.go: the same
\* statements with the data RPC.
ValidateDataResourceConfig(i, typeName, config, ans) ==
    LET e == encodeDynamicValue(config, Schema.ProviderConfig)
        request ==
            [rpc |-> IF i = "p5" THEN "ValidateDataSourceConfig"
                                 ELSE "ValidateDataResourceConfig",
             TypeName |-> "", Config |-> e.dv]
        d1 == e.diags \o RPCErrorDiagnostics(ans.err)
    IN  IF HasErrors(e.diags)
        THEN Out(None, e.diags, << "Config" >>, <<>>, <<>>)
        ELSE IF ans.err # Nil
        THEN Out(None, d1, << "Config" >>, << request >>, <<>>)
        ELSE Out(None, d1 \o decodeDiagnostics(ans.resp.Diagnostics), << "Config" >>,
                 << request >>, <<>>)

ValidateManagedResourceConfigCall ==
    /\ CanOperate
    /\ impl \in MutexImpls
    /\ \E typeName \in {"res_a", "missing"} : \E config \in StateValues :
        \E ans \in AnswersFor(ValidateManagedResourceConfig(impl, typeName, config,
                                                            TransportFailure),
                              ValidateAnswers) :
          ClientOperation("ValidateManagedResourceConfig", None,
                          [TypeName |-> typeName, Config |-> config],
                          ValidateManagedResourceConfig(impl, typeName, config, ans), ans)

ValidateDataResourceConfigCall ==
    /\ CanOperate
    /\ impl \in MutexImpls
    /\ \E typeName \in {"data_a", "missing"} : \E config \in DataValues :
        \E ans \in AnswersFor(ValidateDataResourceConfig(impl, typeName, config,
                                                         TransportFailure),
                              ValidateAnswers) :
          ClientOperation("ValidateDataResourceConfig", None,
                          [TypeName |-> typeName, Config |-> config],
                          ValidateDataResourceConfig(impl, typeName, config, ans), ans)

Next ==
    \/ \E t \in Callers :
          \/ ConfigureBegin(t)
          \/ ConfigureRespond(t)
          \/ ManagedResourceTypeCall(t)
          \/ DataResourceTypeCall(t)
    \/ PrepareConfigCall
    \/ PlanCall
    \/ PlanResourceChangeCall

Spec == Init /\ [][Next]_vars
SpecMu == InitMu /\ [][Next]_vars

\* The provider with the operations of the resource type clients and of the
\* provider itself, driven by one caller; its Configure calls are what makes
\* the provider-level operations pass requireConfigured.
NextOps ==
    \/ ConfigureBegin(1)
    \/ ConfigureRespond(1)
    \/ PrepareConfigCall
    \/ ValidateConfigCall
    \/ ReadCall
    \/ PlanCall
    \/ ApplyCall
    \/ ImportCall
    \/ DataReadCall
    \/ PlanResourceChangeCall
    \/ ApplyResourceChangeCall
    \/ ReadResourceCall
    \/ ImportResourceStateCall
    \/ ValidateManagedResourceConfigCall
    \/ ValidateDataResourceConfigCall

SpecOps == InitMu /\ [][NextOps]_vars

\* ------------------------------------------------------- the value codec

\* The values and blocks the codec is applied to, and the byte fields of the
\* wire values it is given: empty, bytes that are no encoding at all, and the
\* encoding of each value in the format of the field.
CodecValues ==
    {Val("res_a", 1), Val("res_a", 2), NullVal("res_a"), Val("res_b", 1), NullVal("res_b")}
CodecBlocks == {Block("res_a"), Block("res_b")}
JSONFields == {NoBytes, Garbage} \cup {JSONBytes(v) : v \in CodecValues}
MsgpackFields == {NoBytes, Garbage} \cup {MsgpackBytes(v) : v \in CodecValues}
DynamicValueDatas == [JSON : JSONFields, Msgpack : MsgpackFields]

\* A call of one of the codec's functions: they read no state of the provider
\* and change none.
CodecOperation(kind, req, res, diags) ==
    /\ ncalls' = ncalls + 1
    /\ op' = [kind |-> kind, rt |-> None, req |-> req, ans |-> None,
              out |-> Out(res, diags, <<>>, <<>>, <<>>)]
    /\ UNCHANGED << impl, configured, mu, aborted, call, succeeded >>

\* common.EncodeDynamicValue(val, schema).
EncodeValueCall ==
    /\ CanOperate
    /\ \E val \in CodecValues, schema \in CodecBlocks :
          LET r == EncodeDynamicValue(val, schema)
          IN  CodecOperation("EncodeValue", [val |-> val, schema |-> schema], r.data, r.diags)

\* common.DecodeDynamicValue(data, schema).
DecodeValueCall ==
    /\ CanOperate
    /\ \E data \in DynamicValueDatas, schema \in CodecBlocks :
          LET r == DecodeDynamicValue(data, schema)
          IN  CodecOperation("DecodeValue", [data |-> data, schema |-> schema], r.val, r.diags)

\* encodeDynamicValue(val, schema) of the protocol packages.
WireEncodeCall ==
    /\ CanOperate
    /\ \E val \in CodecValues, schema \in CodecBlocks :
          LET r == encodeDynamicValue(val, schema)
          IN  CodecOperation("WireEncode", [val |-> val, schema |-> schema], r.dv, r.diags)

\* decodeDynamicValue(raw, schema) of the protocol packages, on a message that
\* is there: the callers modelled above test the pointer first, and the
\* import loops, which do not, are modelled in importedByClient and
\* importedByProvider.
WireDecodeCall ==
    /\ CanOperate
    /\ \E data \in DynamicValueDatas, schema \in CodecBlocks :
          LET raw == DV(data.JSON, data.Msgpack)
              r == decodeDynamicValue(raw, schema)
          IN  CodecOperation("WireDecode", [data |-> data, schema |-> schema], r.val, r.diags)

\* DecodeDynamicValue applied to what EncodeDynamicValue returned.
RoundTripCall ==
    /\ CanOperate
    /\ \E val \in CodecValues, schema \in CodecBlocks :
          LET e == EncodeDynamicValue(val, schema)
              d == DecodeDynamicValue(e.data, schema)
          IN  CodecOperation("RoundTrip", [val |-> val, schema |-> schema], d.val,
                             e.diags \o d.diags)

\* ------------------------------------------------------------ construction

\* The connection handle given to NewProvider: the client stub of the
\* protocol, or a value of another type.
ClientProxies == {Conn, "other"}

\* A *tfplugin.Schema of a GetProviderSchema response: the nil pointer, or a
\* message with its block.
NilWireSchema == [nil |-> TRUE, Block |-> NilBlock]
WireSchema(block) == [nil |-> FALSE, Block |-> block]

\* decodeProviderSchemaBlock: never nil; the block is kept as the type it
\* implies.
decodeProviderSchemaBlock(raw) == raw

\* loadSchema: the GetSchema RPC; an error for a transport failure or for an
\* error among the remote diagnostics; else the schema built from the
\* response. resp.Provider.Block and resp.ProviderMeta.Block are read through
\* the pointers, so a response without either message is a nil dereference.
loadSchema(ans) ==
    IF ans.err # Nil THEN [panic |-> FALSE, err |-> "rpc error", schema |-> None]
    ELSE IF HasErrors(decodeDiagnostics(ans.resp.Diagnostics))
    THEN [panic |-> FALSE, err |-> "failed to retrieve provider schema", schema |-> None]
    ELSE IF ans.resp.Provider.nil \/ ans.resp.ProviderMeta.nil
    THEN [panic |-> TRUE, err |-> Nil, schema |-> None]
    ELSE [panic |-> FALSE, err |-> Nil,
          schema |->
            [ProviderConfig |-> decodeProviderSchemaBlock(ans.resp.Provider.Block),
             ProviderMeta   |-> decodeProviderSchemaBlock(ans.resp.ProviderMeta.Block),
             ManagedResourceTypes |->
                 [n \in ans.resp.ResourceSchemas |-> [Version |-> 1, Content |-> Block(n)]],
             DataResourceTypes |->
                 [n \in ans.resp.DataSourceSchemas |-> [Content |-> Block(n)]]]]

GetSchemaRequest == [rpc |-> "GetSchema"]

\* What NewProvider returns: (nil, err) or (provider, nil). closed tells
\* whether plugin.Close() was called.
Constructed(provider, err, closed) == [provider |-> provider, err |-> err, closed |-> closed]

\* NewProvider of part_000 (checked type assertion, closes the plugin when the
\* schema does not load) and of part_003 and provider.go (unchecked type
\* assertion, which panics on a handle of another type).
NewProviderFrom(i, clientProxy, ans) ==
    LET l == loadSchema(ans)
        provider == [client |-> clientProxy, schema |-> l.schema,
                     configured |-> NewProvider(i).configured, mu |-> NewProvider(i).mu]
    IN  IF clientProxy # Conn
        THEN IF i = "p6atomic"
             THEN Out(Constructed(None, "expected ProviderClient", FALSE), <<>>, <<>>, <<>>, <<>>)
             ELSE PanicOut
        ELSE IF l.panic THEN [PanicOut EXCEPT !.sent = << GetSchemaRequest >>]
        ELSE IF l.err # Nil
        THEN Out(Constructed(None, l.err, i = "p6atomic"), <<>>, <<>>,
                 << GetSchemaRequest >>, <<>>)
        ELSE Out(Constructed(provider, Nil, FALSE), <<>>, <<>>, << GetSchemaRequest >>, <<>>)

GetSchemaAnswers ==
    { TransportFailure }
    \cup { [err |-> Nil, resp |-> r] :
             r \in [Diagnostics : WireDiagSeqs,
                    Provider : {NilWireSchema, WireSchema(Block("cfg"))},
                    ProviderMeta : {NilWireSchema, WireSchema(Block("meta"))},
                    ResourceSchemas : SUBSET ManagedNames,
                    DataSourceSchemas : {DataNames}] }

\* A call of NewProvider of the package of this provider, on a connection of
\* its own: it touches nothing of the provider that exists.
NewProviderCall ==
    /\ CanOperate
    /\ \E clientProxy \in ClientProxies :
        \E ans \in AnswersFor(NewProviderFrom(impl, clientProxy, TransportFailure),
                              GetSchemaAnswers) :
          LET out == NewProviderFrom(impl, clientProxy, ans) IN
          /\ ncalls' = ncalls + 1
          /\ aborted' = ~out.returned
          /\ op' = [kind |-> "NewProvider", rt |-> None, req |-> [clientProxy |-> clientProxy],
                    ans |-> Consumed(out, ans), out |-> out]
          /\ UNCHANGED << impl, configured, mu, call, succeeded >>

NextNew == NewProviderCall

SpecNew == Init /\ [][NextNew]_vars

\* The wire paths and wire diagnostics the decoders are applied to, and the
\* diagnostics lists HasErrors is asked about.
MaxSteps == 2
MaxDiags == 2
WireSteps ==
    {WireStep("AttributeName", "id"), WireStep("ElementKeyString", "k"),
     WireStep("ElementKeyInt", 0), WireStep("unset", 0)}
WirePaths ==
    {NilWirePath} \cup { WirePath(steps) : steps \in UNION { [1..n -> WireSteps] : n \in 0..MaxSteps } }
WireDiagnostics ==
    [Severity : {"INVALID", "ERROR", "WARNING"}, Summary : {"s"},
     Attribute : {NilWirePath, WirePath(<< WireStep("unset", 0) >>),
                  WirePath(<< WireStep("AttributeName", "id"), WireStep("unset", 0) >>)}]
WireDiagnosticLists == UNION { [1..n -> WireDiagnostics] : n \in 0..MaxDiags }
DiagnosticLists ==
    UNION { [1..n -> {Diag(Error, "e"), Diag(Warning, "w")}] : n \in 0..(MaxDiags + 1) }

\* decodeAttributePath(raws).
DecodePathCall ==
    /\ CanOperate
    /\ \E raws \in WirePaths :
          CodecOperation("DecodePath", [raws |-> raws], decodeAttributePath(raws), <<>>)

\* decodeDiagnostics(raws).
DecodeDiagnosticsCall ==
    /\ CanOperate
    /\ \E raws \in WireDiagnosticLists :
          CodecOperation("DecodeDiagnostics", [raws |-> raws], decodeDiagnostics(raws), <<>>)

\* diags.HasErrors().
HasErrorsCall ==
    /\ CanOperate
    /\ \E diags \in DiagnosticLists :
          CodecOperation("HasErrors", [diags |-> diags], HasErrors(diags), <<>>)

\* ---------------------------------------------------- schema block decoding

\* ctyjson.UnmarshalType on the bytes of a wire attribute's Type: the JSON
\* type encodings it parses, and a failure for anything else.
UnmarshalType(rawType) ==
    CASE rawType = "json:string"  -> [ty |-> "cty.String", err |-> Nil]
      [] rawType = "json:number"  -> [ty |-> "cty.Number", err |-> Nil]
      [] rawType = "json:dynamic" -> [ty |-> "cty.DynamicPseudoType", err |-> Nil]
      [] OTHER                    -> [ty |-> "cty.NilType", err |-> "invalid type"]

\* A *tfplugin5.Schema_Block: the nil pointer, or a message with its
\* attributes and nested block types in wire order.
NilWireBlock == [nil |-> TRUE, Attributes |-> <<>>, BlockTypes |-> <<>>]
WireBlock(attrs, blocks) == [nil |-> FALSE, Attributes |-> attrs, BlockTypes |-> blocks]

\* The zero tfschema.Block (nil maps) and the zero tfschema.NestingMode.
ZeroBlock == [made |-> FALSE, Attributes |-> <<>>, BlockTypes |-> <<>>]
ZeroMode == "nestingModeInvalid"

\* An attribute decode that keeps whatever type UnmarshalType returned.
decodeAttributeStrict(rawAttr) ==
    [Type        |-> UnmarshalType(rawAttr.Type).ty,
     Description |-> rawAttr.Description,
     Required    |-> rawAttr.Required,
     Optional    |-> rawAttr.Optional,
     Computed    |-> rawAttr.Computed,
     Sensitive   |-> rawAttr.Sensitive]
\* The attribute built by the body of the first loop of
\* decodeProviderSchemaBlock.
decodeAttribute(rawAttr) ==
    LET u == UnmarshalType(rawAttr.Type)
    IN  [Type        |-> IF u.err # Nil THEN "cty.DynamicPseudoType" ELSE u.ty,
         Description |-> rawAttr.Description,
         Required    |-> rawAttr.Required,
         Optional    |-> rawAttr.Optional,
         Computed    |-> rawAttr.Computed,
         Sensitive   |-> rawAttr.Sensitive]

\* The switch on rawBlock.Nesting: no default case, so any other code leaves
\* mode at its zero value.
decodeNesting(nesting) ==
    CASE nesting = "SINGLE" -> "NestingSingle"
      [] nesting = "GROUP"  -> "NestingGroup"
      [] nesting = "LIST"   -> "NestingList"
      [] nesting = "SET"    -> "NestingSet"
      [] nesting = "MAP"    -> "NestingMap"
      [] OTHER              -> ZeroMode

\* m[key] = value on a Go map.
MapSet(m, key, value) ==
    [k \in DOMAIN m \cup {key} |-> IF k = key THEN value ELSE m[k]]

\* The first loop of decodeProviderSchemaBlock: the attributes in wire order,
\* each stored under its name.
RECURSIVE decodeAttributes(_)
decodeAttributes(raws) ==
    IF raws = <<>> THEN <<>>
    ELSE MapSet(decodeAttributes(SubSeq(raws, 1, Len(raws) - 1)),
                raws[Len(raws)].Name, decodeAttribute(raws[Len(raws)]))

\* decodeProviderSchemaBlock on the structure of the wire block (the
\* definition of that name above keeps only the implied type): the zero block
\* for the nil pointer, else both maps made and filled by the two loops, the
\* second one recursing into each nested block.
RECURSIVE decodeWireBlock(_)
RECURSIVE decodeBlockTypes(_)
decodeBlockTypes(raws) ==
    IF raws = <<>> THEN <<>>
    ELSE LET rawBlock == raws[Len(raws)]
         IN  MapSet(decodeBlockTypes(SubSeq(raws, 1, Len(raws) - 1)),
                    rawBlock.TypeName,
                    [Nesting |-> decodeNesting(rawBlock.Nesting),
                     Block   |-> decodeWireBlock(rawBlock.Block)])
decodeWireBlock(raw) ==
    IF raw.nil THEN ZeroBlock
    ELSE [made       |-> TRUE,
          Attributes |-> decodeAttributes(raw.Attributes),
          BlockTypes |-> decodeBlockTypes(raw.BlockTypes)]

\* Wire blocks to decode: up to MaxAttrs attributes and MaxNested nested
\* block types, with every nesting code and with inner blocks that are absent,
\* hold an attribute of unparseable type, or nest a further block.
MaxAttrs == 2
MaxNested == 1
WireAttribute(name, rawType, required) ==
    [Name |-> name, Type |-> rawType, Description |-> "d", Required |-> required,
     Optional |-> ~required, Computed |-> FALSE, Sensitive |-> FALSE]
WireNested(typeName, nesting, block) ==
    [TypeName |-> typeName, Nesting |-> nesting, Block |-> block]
WireAttributes ==
    { WireAttribute(n, ty, TRUE) : n \in {"a", "b"}, ty \in {"json:string", "json:number", "garbage"} }
NestingCodes == {"INVALID", "SINGLE", "LIST", "SET", "MAP", "GROUP", "code-99"}
InnerWireBlocks ==
    { NilWireBlock,
      WireBlock(<< WireAttribute("x", "garbage", FALSE) >>, <<>>),
      WireBlock(<< WireAttribute("y", "json:string", TRUE) >>,
                << WireNested("deep", "LIST", NilWireBlock) >>) }
WireNestedBlocks ==
    { WireNested(n, c, b) : n \in {"n", "m"}, c \in NestingCodes, b \in InnerWireBlocks }
WireBlocks ==
    {NilWireBlock}
    \cup { WireBlock(attrs, blocks) :
             attrs \in UNION { [1..k -> WireAttributes] : k \in 0..MaxAttrs },
             blocks \in UNION { [1..k -> WireNestedBlocks] : k \in 0..MaxNested } }

\* decodeProviderSchemaBlock(raw).
DecodeSchemaBlockCall ==
    /\ CanOperate
    /\ \E raw \in WireBlocks :
          CodecOperation("DecodeSchemaBlock", [raw |-> raw], decodeWireBlock(raw), <<>>)

NextCodec ==
    \/ DecodeSchemaBlockCall
    \/ DecodePathCall
    \/ DecodeDiagnosticsCall
    \/ HasErrorsCall
    \/ EncodeValueCall
    \/ DecodeValueCall
    \/ WireEncodeCall
    \/ WireDecodeCall
    \/ RoundTripCall

SpecCodec == InitMu /\ [][NextCodec]_vars

\* ------------------------------------------------------------------ claims

ConfigureDone(t) == call[t].op = "Configure" /\ call[t].pc = "done"
LookupDone(t) ==
    /\ call[t].op \in {"ManagedResourceType", "DataResourceType"}
    /\ call[t].pc = "done"
IssuedRPC(t) == call[t].sent # <<>>
\* The remote process answered, and its answer holds no error diagnostic.
CleanAnswer(ans) == ans.err = Nil /\ ~HasErrors(decodeDiagnostics(ans.resp.Diagnostics))
\* The remote process answered, and its answer holds an error diagnostic.
ErrorAnswer(ans) == ans.err = Nil /\ HasErrors(decodeDiagnostics(ans.resp.Diagnostics))
\* The callers that have started a call.
Started == {t \in Callers : call[t].op # "none"}
\* Every caller in Started has made one call, a Configure with a valid config,
\* no other call was made, every call is over, and the remote process answered
\* every configure request without error.
OneConfigureEach ==
    /\ Started # {}
    /\ ncalls = Cardinality(Started)
    /\ \A t \in Started :
        /\ call[t].op = "Configure"
        /\ call[t].arg = GoodConfig
        /\ call[t].pc \in {"done", "panicked"}
        /\ (call[t].pc = "done" /\ IssuedRPC(t)) => CleanAnswer(call[t].ans)
Winners == {t \in Started : call[t].pc = "done" /\ ~HasErrors(call[t].diags)}
Rejected == {t \in Started : call[t].pc = "done" /\ call[t].diags = AlreadyConfiguredDiags}

\* C1: when N callers each issue one Configure call with a valid config on a
\* fresh provider, and the remote process answers without error, exactly one
\* call returns without error and the N-1 others return the single error
\* "Provider already configured".
C1_OneConfigureWins ==
    OneConfigureEach =>
        /\ Cardinality(Winners) = 1
        /\ Cardinality(Rejected) = Cardinality(Started) - 1

\* The step in which Configure call t returns from its RPC.
ReturnsFromRPC(t) == Pending(t) /\ ConfigureDone(t)'

\* C2: a Configure call whose remote response holds an error diagnostic leaves
\* the provider Unconfigured when it returns, and a Configure call whose remote
\* response holds no error returns no error and leaves the provider Configured.
C2_RemoteErrorResets ==
    [][\A t \in Callers :
          ReturnsFromRPC(t) =>
              /\ ErrorAnswer(call'[t].ans) => ~configured'
              /\ CleanAnswer(call'[t].ans) => (~HasErrors(call'[t].diags) /\ configured')]_vars

\* A Configure call was refused by the remote process, and another one, which
\* can only have run after it, was accepted and left the provider Configured.
C2_Witness ==
    \E t \in Callers : \E u \in Callers \ {t} :
        /\ ConfigureDone(t) /\ IssuedRPC(t) /\ ErrorAnswer(call[t].ans)
        /\ ConfigureDone(u) /\ IssuedRPC(u) /\ CleanAnswer(call[u].ans)
        /\ ~HasErrors(call[u].diags)
        /\ configured

\* Configure call t has failed on the encoding of its config.
EncodeFailed(t) ==
    /\ ConfigureDone(t)
    /\ call[t].encoded # <<>>
    /\ ~IssuedRPC(t)
\* Configure call t has failed on the transport of its RPC.
TransportFailed(t) ==
    /\ ConfigureDone(t)
    /\ IssuedRPC(t)
    /\ call[t].ans.err # Nil

\* C3: a Configure call that fails on the encoding of its config or on the
\* transport of its RPC leaves the provider Unconfigured when it returns.
C3_LocalFailureResets ==
    [][\A t \in Callers :
          (call[t].pc # "done" /\ (EncodeFailed(t)' \/ TransportFailed(t)'))
              => ~configured']_vars

\* C4: a lookup made before any Configure call has returned without error
\* fails with the not-configured condition, returns no client and issues no
\* RPC, whatever the name.
C4_LookupBeforeConfigured ==
    \A t \in Callers :
        (LookupDone(t) /\ ~call[t].seen.succeeded) =>
            /\ call[t].res.err = "provider not configured"
            /\ call[t].res.rt = NoClient
            /\ ~IssuedRPC(t)

\* C5: a lookup never returns a client while a Configure call is between its
\* setting of the flag and its return.
C5_NoClientFromInFlightFlag ==
    \A t \in Callers :
        (LookupDone(t) /\ call[t].res.rt # NoClient) => ~call[t].seen.pending

\* C6: a Configure call on a provider that is already Configured returns the
\* single error "Provider already configured", encodes nothing, issues no RPC
\* and leaves the provider Configured.
C6_SecondConfigureRejected ==
    \A t \in Callers :
        (call[t].op = "Configure" /\ call[t].pc # "idle" /\ call[t].seen.succeeded) =>
            /\ call[t].pc = "done"
            /\ call[t].diags = AlreadyConfiguredDiags
            /\ call[t].encoded = <<>>
            /\ ~IssuedRPC(t)
            /\ configured

C6_Witness ==
    \E t \in Callers :
        /\ ConfigureDone(t)
        /\ call[t].seen.succeeded
        /\ call[t].arg = GoodConfig

\* C7: once a Configure call has returned without error the provider stays
\* Configured, whatever calls follow.
C7_ConfiguredIsTerminal == succeeded => configured

\* A Configure call, a lookup or a resource operation ran on the Configured
\* provider.
C7_Witness ==
    /\ succeeded
    /\ ncalls = MaxCalls
    /\ \/ op.kind # "none"
       \/ \E t \in Callers : call[t].pc = "done" /\ call[t].seen.succeeded

\* C8: the provider NewProvider returns is Unconfigured, and the first
\* Configure call on it, with a valid config and a remote response free of
\* errors, returns (it neither aborts nor blocks), returns no error and leaves
\* the provider Configured.
C8_FirstConfigureSucceeds ==
    /\ ncalls = 0 => ~configured
    /\ \A t \in Callers :
        (/\ call[t].op = "Configure"
         /\ call[t].seen.first
         /\ call[t].arg = GoodConfig
         /\ call[t].pc # "rpc"
         /\ IssuedRPC(t) => CleanAnswer(call[t].ans))
        => /\ call[t].pc = "done"
           /\ ~HasErrors(call[t].diags)
           /\ configured

\* The schema table a lookup reads.
SchemaTable(o) ==
    IF o = "ManagedResourceType" THEN Schema.ManagedResourceTypes
                                 ELSE Schema.DataResourceTypes
ClientKind(o) == IF o = "ManagedResourceType" THEN "managed" ELSE "data"

PlanBlock(o) ==
    IF o.kind = "Plan" THEN o.rt.schema.Content
                       ELSE Schema.ManagedResourceTypes[o.req.TypeName].Content
\* A plan operation returned after it had started to encode, and its prior
\* state does not conform to the schema.
PriorStateFailed(o) ==
    /\ o.kind \in {"Plan", "PlanResourceChange"}
    /\ o.out.returned
    /\ o.out.encoded # <<>>
    /\ o.req.PriorState.ty # ImpliedType(PlanBlock(o))
EmptyPlanResult(o) ==
    IF o.kind = "Plan" THEN EmptyManagedResourcePlanResponse
                       ELSE EmptyPlanResourceChangeResponse

\* C10: a Plan operation whose prior state fails to encode issues no RPC,
\* encodes nothing after the prior state, and returns the empty result with
\* exactly one diagnostic, the encode error.
C10_PriorStateEncodeFailure ==
    PriorStateFailed(op) =>
        /\ op.out.sent = <<>>
        /\ op.out.encoded = << "PriorState" >>
        /\ op.out.decoded = <<>>
        /\ op.out.res = EmptyPlanResult(op)
        /\ Len(op.out.diags) = 1
        /\ HasErrors(op.out.diags)

\* The provider-level plan ran with a prior state, a proposed state, a config
\* and a provider meta value none of which conforms.
C10_Witness ==
    /\ PriorStateFailed(op)
    /\ op.kind = "PlanResourceChange"
    /\ op.req.ProposedNewState.ty # ImpliedType(PlanBlock(op))
    /\ op.req.Config.ty # ImpliedType(PlanBlock(op))
    /\ op.req.ProviderMeta = Val("res_a", 1)

\* The operations of the resource type clients.
ClientKinds == {"ValidateConfig", "Read", "Plan", "Apply", "Import", "DataRead"}

\* The values an operation of a resource type client has to encode, in the
\* order prior state, proposed or planned state, config, provider meta, each
\* with the block it is encoded against. The provider meta value is an input
\* when it is not null and the client holds a provider meta schema.
In(name, val, block) == [name |-> name, val |-> val, block |-> block]
MetaInput(o) ==
    IF ~o.req.ProviderMeta.null /\ o.rt.providerMetaSchema # NilBlock
    THEN << In("ProviderMeta", o.req.ProviderMeta, o.rt.providerMetaSchema) >>
    ELSE <<>>
InputsOf(o) ==
    LET content == o.rt.schema.Content IN
    CASE o.kind = "ValidateConfig" -> << In("Config", o.req.Config, content) >>
      [] o.kind = "Read" -> << In("PreviousValue", o.req.PreviousValue, content) >>
      [] o.kind = "Plan" ->
            << In("PriorState", o.req.PriorState, content),
               In("ProposedNewState", o.req.ProposedNewState, content),
               In("Config", o.req.Config, content) >> \o MetaInput(o)
      [] o.kind = "Apply" ->
            << In("PriorState", o.req.PriorState, content),
               In("PlannedState", o.req.PlannedState, content),
               In("Config", o.req.Config, content) >> \o MetaInput(o)
      [] o.kind = "DataRead" -> << In("Config", o.req.Config, content) >> \o MetaInput(o)
      [] OTHER -> <<>>
Conforms(in) == in.val.ty = in.block.implied
\* The first input that does not conform, 0 when all do.
FirstBad(ins) ==
    IF \A i \in 1..Len(ins) : Conforms(ins[i]) THEN 0
    ELSE CHOOSE i \in 1..Len(ins) :
            /\ ~Conforms(ins[i])
            /\ \A j \in 1..(i - 1) : Conforms(ins[j])
InputNames(ins, n) == [i \in 1..n |-> ins[i].name]

\* C11: an operation of a resource type client issues exactly one RPC when
\* all its inputs encode and none when one does not; it encodes its inputs in
\* the order prior state, proposed or planned state, config, provider meta, and
\* stops at the first input that fails: nothing is encoded, sent or decoded
\* after it. No operation issues more than one RPC.
C11_OneRPCAfterEncodes ==
    (op.kind \in ClientKinds) =>
        LET ins == InputsOf(op)
            bad == FirstBad(ins)
        IN  IF bad = 0
            THEN /\ Len(op.out.sent) = 1
                 /\ op.out.encoded = InputNames(ins, Len(ins))
            ELSE /\ op.out.sent = <<>>
                 /\ op.out.encoded = InputNames(ins, bad)
                 /\ op.out.decoded = <<>>

\* An Apply stopped at its planned state, with a config that would not have
\* encoded either.
C11_Witness ==
    /\ op.kind = "Apply"
    /\ FirstBad(InputsOf(op)) = 2
    /\ ~Conforms(InputsOf(op)[3])
    /\ op.out.returned

\* The provider-level resource operations.
ProviderKinds ==
    {"PlanResourceChange", "ApplyResourceChange", "ReadResource", "ImportResourceState"}

\* The zero value of the result an operation returns.
EmptyResultOf(o) ==
    CASE o.kind = "ValidateConfig"      -> None
      [] o.kind = "Read"                -> EmptyManagedResourceReadResponse
      [] o.kind = "Plan"                -> EmptyManagedResourcePlanResponse
      [] o.kind = "Apply"               -> EmptyManagedResourceApplyResponse
      [] o.kind = "Import"              -> EmptyManagedResourceImportResponse
      [] o.kind = "DataRead"            -> EmptyDataResourceReadResponse
      [] o.kind = "PlanResourceChange"  -> EmptyPlanResourceChangeResponse
      [] o.kind = "ApplyResourceChange" -> EmptyApplyResourceChangeResponse
      [] o.kind = "ReadResource"        -> EmptyReadResourceResponse
      [] o.kind = "ImportResourceState" -> EmptyImportResourceStateResponse

\* A resource operation whose RPC failed at transport level.
OpTransportFailed(o) ==
    /\ o.kind \in ClientKinds \cup ProviderKinds
    /\ o.out.sent # <<>>
    /\ o.ans.err # Nil
\* Exactly one diagnostic, the RPC error.
OnlyRPCError(diags) ==
    /\ Len(diags) = 1
    /\ diags[1].Severity = Error
    /\ diags[1].Summary = "RPC communication error"

\* C12: an operation whose RPC fails at transport level returns the empty
\* result and exactly one diagnostic, an error with the summary "RPC
\* communication error", and decodes nothing; a Configure call whose RPC fails
\* so leaves the provider Unconfigured.
C12_TransportFailure ==
    [][/\ OpTransportFailed(op') =>
            /\ op'.out.res = EmptyResultOf(op')
            /\ OnlyRPCError(op'.out.diags)
            /\ op'.out.decoded = <<>>
       /\ \A t \in Callers :
            (ReturnsFromRPC(t) /\ call'[t].ans.err # Nil) =>
                /\ OnlyRPCError(call'[t].diags)
                /\ ~configured']_vars

\* A resource operation whose RPC completed and which returned.
OpCompleted(o) ==
    /\ o.kind \in ClientKinds \cup ProviderKinds
    /\ o.out.returned
    /\ o.out.sent # <<>>
    /\ o.ans.err = Nil

\* The remote diagnostics as the response lists them.
RemoteDiags(o) ==
    [i \in 1..Len(o.ans.resp.Diagnostics) |->
        [Severity  |-> IF o.ans.resp.Diagnostics[i].Severity = "WARNING" THEN Warning
                                                                         ELSE Error,
         Summary   |-> o.ans.resp.Diagnostics[i].Summary,
         Attribute |-> NoPath]]

\* The state payload of a response, and the block it is decoded against.
PayloadOf(o) ==
    CASE o.kind \in {"Plan", "PlanResourceChange"} -> o.ans.resp.PlannedState
      [] o.kind \in {"Read", "Apply", "ApplyResourceChange", "ReadResource"} ->
            o.ans.resp.NewState
      [] o.kind = "DataRead" -> o.ans.resp.State
      [] OTHER -> NilDV
BlockOf(o) ==
    IF o.kind \in ProviderKinds THEN Schema.ManagedResourceTypes[o.req.TypeName].Content
                                ELSE o.rt.schema.Content
RequestedType(o) == IF o.kind \in ProviderKinds THEN o.req.TypeName ELSE o.rt.typeName

\* The diagnostics an import loop produces for one entry: the type error when
\* the entry is dropped for its type, else those of the decode of its state.
ImportedDiags(o, imported) ==
    IF o.kind = "Import"
    THEN IF imported.TypeName # o.rt.typeName
         THEN << Diag(Error, "Import type mismatch") >>
         ELSE decodeDynamicValue(imported.State, BlockOf(o)).diags
    ELSE IF imported.TypeName = o.req.TypeName
         THEN decodeDynamicValue(imported.State, BlockOf(o)).diags
         ELSE IF imported.TypeName \in DOMAIN Schema.ManagedResourceTypes
         THEN decodeDynamicValue(imported.State,
                                 Schema.ManagedResourceTypes[imported.TypeName].Content).diags
         ELSE << Diag(Error, "Invalid imported resource type") >>

\* The diagnostics produced locally after the RPC, in the order the decodes
\* ran.
LocalDiags(o) ==
    IF o.kind \in {"Import", "ImportResourceState"}
    THEN Flatten([i \in 1..Len(o.ans.resp.ImportedResources) |->
                     ImportedDiags(o, o.ans.resp.ImportedResources[i])])
    ELSE IF PayloadOf(o).nil THEN <<>>
    ELSE decodeDynamicValue(PayloadOf(o), BlockOf(o)).diags

\* C13: when the RPC of an operation completes, the diagnostics the operation
\* returns are the remote diagnostics in the order of the response, warnings
\* included, each once, followed by the local diagnostics in the order the
\* decodes ran; none is missing.
C13_DiagnosticsInOrder ==
    OpCompleted(op) => op.out.diags = RemoteDiags(op) \o LocalDiags(op)

\* An import that got a warning and an error from the remote process, dropped
\* one entry for its type and another because its state did not decode.
C13_Witness ==
    /\ OpCompleted(op)
    /\ op.kind = "Import"
    /\ Len(op.ans.resp.Diagnostics) = 2
    /\ Len(LocalDiags(op)) = 2
    /\ LocalDiags(op)[1] # LocalDiags(op)[2]

\* C14: when the remote diagnostics of a completed operation contain an error,
\* the operation merges them into its result and decodes nothing of the
\* response payload.
C14_RemoteErrorSkipsDecode ==
    (OpCompleted(op) /\ HasErrors(RemoteDiags(op)))
        => /\ SubSeq(op.out.diags, 1, Len(RemoteDiags(op))) = RemoteDiags(op)
           /\ op.out.decoded = <<>>

\* A step that is a PrepareConfig call.
PrepareConfigStep ==
    /\ call' = call
    /\ ncalls' # ncalls
    /\ op'.kind = "PrepareConfig"

ConfigConforms(config) == config.ty = Schema.ProviderConfig.implied

\* What a PrepareConfig of protocol 6 returned: no RPC, the caller's config,
\* and the diagnostics of the encode.
PreparedV6(o) ==
    /\ o.out.returned
    /\ o.out.sent = <<>>
    /\ o.out.res.Value = o.req.Config
    /\ IF ConfigConforms(o.req.Config)
       THEN o.out.diags = <<>>
       ELSE /\ Len(o.out.diags) = 1
            /\ o.out.diags[1].Severity = Error

\* What a PrepareConfig of protocol 5 returned: one PrepareProviderConfig
\* request when the config encodes and none when it does not, and the decoded
\* prepared config when the response carries one.
PreparedV5(o) ==
    /\ o.out.returned
    /\ IF ConfigConforms(o.req.Config)
       THEN /\ Len(o.out.sent) = 1
            /\ o.out.sent[1].rpc = "PrepareProviderConfig"
            /\ o.out.sent[1].Config = DV(NoBytes, MsgpackBytes(o.req.Config))
       ELSE /\ o.out.sent = <<>>
            /\ o.out.res.Value = o.req.Config
    /\ (o.out.sent # <<>> /\ o.ans.err = Nil /\ ~o.ans.resp.PreparedConfig.nil)
         => /\ o.out.decoded = << "PreparedConfig" >>
            /\ \A v \in ConfigValues \cup {Val("cfg", 2)} :
                  o.ans.resp.PreparedConfig = DV(NoBytes, MsgpackBytes(v))
                      => o.out.res.Value = v

\* C15: PrepareConfig of protocol 6 issues no RPC and returns the caller's
\* config unchanged with the diagnostics of the encode; PrepareConfig of
\* protocol 5 issues exactly one remote prepare call when the config encodes,
\* none when it does not, and returns the decoded prepared config when the
\* response carries one; neither changes the configuration state.
C15_PrepareConfig ==
    [][PrepareConfigStep =>
          /\ IF impl = "p5" THEN PreparedV5(op') ELSE PreparedV6(op')
          /\ configured' = configured
          /\ mu' = mu
          /\ succeeded' = succeeded]_vars

\* A PrepareConfig of protocol 5 returned a prepared config that differs from
\* the config it was given.
C15_Witness ==
    /\ op.kind = "PrepareConfig"
    /\ impl = "p5"
    /\ op.out.decoded = << "PreparedConfig" >>
    /\ op.out.res.Value = Val("cfg", 2)
    /\ op.req.Config # Val("cfg", 2)
    /\ op.out.diags = <<>>

\* A decode of the codec, at either level.
DecodeKinds == {"DecodeValue", "WireDecode"}
EncodeKinds == {"EncodeValue", "WireEncode"}

\* The bytes of a field are the encoding, in the field's format, of a value
\* of the block's implied type.
FieldConforms(format, raw, schema) ==
    \E v \in CodecValues :
        /\ v.ty = schema.implied
        /\ raw = << format, v.ty, v.null, v.v >>
\* The value such bytes encode.
FieldValue(raw) == [ty |-> raw[2], null |-> raw[3], v |-> raw[4]]

\* What a decode of the msgpack field alone gives.
DecodedBinary(o) ==
    IF FieldConforms("msgpack", o.req.data.Msgpack, o.req.schema)
    THEN /\ o.out.res = FieldValue(o.req.data.Msgpack)
         /\ o.out.diags = <<>>
    ELSE /\ o.out.res = DynamicVal
         /\ Len(o.out.diags) = 1
         /\ o.out.diags[1].Severity = Error
         /\ o.out.diags[1].Summary = "Provider returned invalid object"

\* C16: a decode of a wire value whose msgpack bytes are populated decodes
\* the msgpack bytes, also when the JSON bytes are populated too.
C16_BinaryPreferred ==
    (op.kind \in DecodeKinds /\ op.req.data.Msgpack # NoBytes) => DecodedBinary(op)

\* C17: a decode of a wire value with neither JSON nor msgpack bytes
\* populated returns exactly one diagnostic, of error severity, and the
\* placeholder value; the call returns and the process goes on.
C17_NeitherPopulated ==
    (/\ op.kind \in DecodeKinds
     /\ op.req.data.JSON = NoBytes
     /\ op.req.data.Msgpack = NoBytes)
        => /\ op.out.returned
           /\ ~aborted
           /\ op.out.res = DynamicVal
           /\ Len(op.out.diags) = 1
           /\ op.out.diags[1].Severity = Error

\* The decode of the protocol packages was given such a wire value.
C17_Witness ==
    /\ op.kind = "WireDecode"
    /\ op.req.data = [JSON |-> NoBytes, Msgpack |-> NoBytes]
    /\ op.out.returned
    /\ op.out.diags[1].Summary = "Provider using unsupported response format"

\* The populated fields of a wire value.
Populated(data) ==
    {f \in {<< "json", data.JSON >>, << "msgpack", data.Msgpack >>} : f[2] # NoBytes}

\* The value did not encode: no bytes, one "Invalid object" error.
EncodeRefused(o) ==
    /\ IF o.kind = "EncodeValue"
       THEN o.out.res = [JSON |-> NoBytes, Msgpack |-> NoBytes]
       ELSE o.out.res = NilDV
    /\ Len(o.out.diags) = 1
    /\ o.out.diags[1].Severity = Error
    /\ o.out.diags[1].Summary = "Invalid object"

\* The value encoded: msgpack bytes only, and no diagnostics.
EncodeDone(o) ==
    /\ o.out.res.Msgpack # NoBytes
    /\ IF o.kind = "EncodeValue" THEN o.out.res.JSON = NoBytes
                                 ELSE ~o.out.res.nil /\ o.out.res.Json = NoBytes
    /\ o.out.diags = <<>>

\* C18: an encode of a value that does not conform to the block's implied
\* type returns no bytes and exactly one error diagnostic "Invalid object"; a
\* decode of populated bytes that do not conform returns the placeholder and
\* exactly one error diagnostic "Provider returned invalid object"; an encode
\* or decode that succeeds returns no diagnostics. (For a wire value with both
\* fields populated the statement is about the case where both agree on
\* conforming or not.)
C18_CodecFailures ==
    /\ op.kind \in EncodeKinds =>
          IF op.req.val.ty = op.req.schema.implied THEN EncodeDone(op) ELSE EncodeRefused(op)
    /\ (op.kind \in DecodeKinds /\ Populated(op.req.data) # {}) =>
          /\ (\A f \in Populated(op.req.data) : ~FieldConforms(f[1], f[2], op.req.schema))
                => /\ op.out.res = DynamicVal
                   /\ Len(op.out.diags) = 1
                   /\ op.out.diags[1].Severity = Error
                   /\ op.out.diags[1].Summary = "Provider returned invalid object"
          /\ (\A f \in Populated(op.req.data) : FieldConforms(f[1], f[2], op.req.schema))
                => /\ op.out.diags = <<>>
                   /\ \E f \in Populated(op.req.data) : op.out.res = FieldValue(f[2])

\* An encode was refused for a value of another block's type.
C18_Witness ==
    /\ op.kind = "EncodeValue"
    /\ op.req.val = Val("res_b", 1)
    /\ op.req.schema = Block("res_a")
    /\ EncodeRefused(op)

ImportKinds == {"Import", "ImportResourceState"}
ImportCompleted(o) ==
    /\ o.kind \in ImportKinds
    /\ o.out.sent # <<>>
    /\ o.ans.err = Nil

\* The state of an entry decodes against the block of the requested type.
StateDecodes(o, imported) ==
    /\ ~imported.State.nil
    /\ imported.State.Json = NoBytes
    /\ Len(imported.State.Msgpack) = 4
    /\ imported.State.Msgpack[1] = "msgpack"
    /\ imported.State.Msgpack[2] = BlockOf(o).implied

\* The entries of the response of the requested type whose state decodes, as
\* the result should list them.
RECURSIVE ExpectedImported(_, _)
ExpectedImported(o, raws) ==
    IF raws = <<>> THEN <<>>
    ELSE (IF Head(raws).TypeName = RequestedType(o) /\ StateDecodes(o, Head(raws))
          THEN << [TypeName |-> Head(raws).TypeName,
                   State    |-> FieldValue(Head(raws).State.Msgpack),
                   Private  |-> Head(raws).Private] >>
          ELSE <<>>)
         \o ExpectedImported(o, Tail(raws))

\* The entries of the result that have the requested type, with the private
\* blob under one name for both clients.
RECURSIVE ImportedOfType(_, _)
ImportedOfType(o, res) ==
    IF res = <<>> THEN <<>>
    ELSE (IF Head(res).TypeName = RequestedType(o)
          THEN << [TypeName |-> Head(res).TypeName,
                   State    |-> Head(res).State,
                   Private  |-> IF o.kind = "Import" THEN Head(res).OpaquePrivate
                                                     ELSE Head(res).Private] >>
          ELSE <<>>)
         \o ImportedOfType(o, Tail(res))

\* The number of type errors among the returned diagnostics, and the number
\* of entries an import drops for their type: the client of a resource type
\* drops every entry of another type, the provider every entry whose type is
\* not in the schema.
TypeErrors(o) ==
    Cardinality({i \in 1..Len(o.out.diags) :
                    /\ o.out.diags[i].Severity = Error
                    /\ o.out.diags[i].Summary
                          \in {"Import type mismatch", "Invalid imported resource type"}})
DroppedForType(o) ==
    Cardinality({i \in 1..Len(o.ans.resp.ImportedResources) :
        IF o.kind = "Import"
        THEN o.ans.resp.ImportedResources[i].TypeName # o.rt.typeName
        ELSE o.ans.resp.ImportedResources[i].TypeName \notin DOMAIN Schema.ManagedResourceTypes})

ImportedAsClaimed(o) ==
    /\ o.out.returned
    /\ ImportedOfType(o, o.out.res.ImportedResources)
           = ExpectedImported(o, o.ans.resp.ImportedResources)
    /\ \A i \in 1..Len(o.out.res.ImportedResources) :
           o.out.res.ImportedResources[i].TypeName \in DOMAIN Schema.ManagedResourceTypes
    /\ TypeErrors(o) = DroppedForType(o)

\* C20: an import returns every entry of the response that has the requested
\* type and whose state decodes, in the order of the response, with its type
\* name, decoded state and private blob; an entry whose type is not in the
\* schema is left out and adds exactly one error diagnostic; an entry that is
\* dropped or does not decode removes no other entry.
C20_ImportEntries ==
    ImportCompleted(op) => ImportedAsClaimed(op)

\* An entry of an import response that names another type than the requested
\* one, a type of the loaded schema, and whose state decodes against the block
\* of the named type.
AltTypeDecodes(o, imported) ==
    /\ imported.TypeName # RequestedType(o)
    /\ imported.TypeName \in DOMAIN Schema.ManagedResourceTypes
    /\ ~imported.State.nil
    /\ imported.State.Json = NoBytes
    /\ Len(imported.State.Msgpack) = 4
    /\ imported.State.Msgpack[1] = "msgpack"
    /\ imported.State.Msgpack[2]
           = Schema.ManagedResourceTypes[imported.TypeName].Content.implied

\* The entries of another known type, as the result should list them.
RECURSIVE ExpectedAltImported(_, _)
ExpectedAltImported(o, raws) ==
    IF raws = <<>> THEN <<>>
    ELSE (IF AltTypeDecodes(o, Head(raws))
          THEN << [TypeName |-> Head(raws).TypeName,
                   State    |-> FieldValue(Head(raws).State.Msgpack)] >>
          ELSE <<>>)
         \o ExpectedAltImported(o, Tail(raws))

\* The entries of the result that have another type than the requested one.
RECURSIVE ImportedOfOtherType(_, _)
ImportedOfOtherType(o, res) ==
    IF res = <<>> THEN <<>>
    ELSE (IF Head(res).TypeName # RequestedType(o)
          THEN << [TypeName |-> Head(res).TypeName, State |-> Head(res).State] >>
          ELSE <<>>)
         \o ImportedOfOtherType(o, Tail(res))

UnknownTypeEntries(o) ==
    Cardinality({i \in 1..Len(o.ans.resp.ImportedResources) :
        o.ans.resp.ImportedResources[i].TypeName \notin DOMAIN Schema.ManagedResourceTypes})

AltImportedAsClaimed(o) ==
    /\ ImportedOfOtherType(o, o.out.res.ImportedResources)
           = ExpectedAltImported(o, o.ans.resp.ImportedResources)
    /\ TypeErrors(o) = UnknownTypeEntries(o)

\* C21: an entry of an import response that names a type other than the
\* requested one, but one of the loaded schema, is decoded against the schema
\* of the named type and, when it decodes, is part of the result; it adds no
\* type error to the diagnostics.
C21_AltTypeImported ==
    (ImportCompleted(op) /\ op.out.returned) => AltImportedAsClaimed(op)

\* The managed operations that carry a private blob, and where each keeps it:
\* in the caller's request, in the RPC request, in the RPC response and in the
\* result.
PrivateKinds ==
    {"Read", "Plan", "Apply", "PlanResourceChange", "ApplyResourceChange", "ReadResource"}
PrivateGiven(o) ==
    CASE o.kind \in {"Read", "Plan", "Apply"} -> o.req.OpaquePrivate
      [] o.kind = "PlanResourceChange"  -> o.req.PriorPrivate
      [] o.kind = "ApplyResourceChange" -> o.req.PlannedPrivate
      [] o.kind = "ReadResource"        -> o.req.Private
PrivateSent(o) ==
    CASE o.kind \in {"Read", "ReadResource"} -> o.out.sent[1].Private
      [] o.kind \in {"Plan", "PlanResourceChange"} -> o.out.sent[1].PriorPrivate
      [] o.kind \in {"Apply", "ApplyResourceChange"} -> o.out.sent[1].PlannedPrivate
PrivateAnswered(o) ==
    IF o.kind \in {"Plan", "PlanResourceChange"} THEN o.ans.resp.PlannedPrivate
                                                 ELSE o.ans.resp.Private
PrivateReturned(o) ==
    CASE o.kind \in {"Read", "Plan", "Apply"} -> o.out.res.OpaquePrivate
      [] o.kind = "PlanResourceChange" -> o.out.res.PlannedPrivate
      [] o.kind \in {"ApplyResourceChange", "ReadResource"} -> o.out.res.Private

\* C22: for managed Read, Plan and Apply the private blob of the request is
\* the blob sent in the RPC and the private blob of the RPC response is the
\* blob returned to the caller, whatever the remote diagnostics are and
\* whether the state payload decodes or not.
C22_PrivateThreaded ==
    (op.kind \in PrivateKinds /\ op.out.returned /\ op.out.sent # <<>>)
        => /\ PrivateSent(op) = PrivateGiven(op)
           /\ op.ans.err = Nil => PrivateReturned(op) = PrivateAnswered(op)

\* A Read got an error from the remote process and a state that does not
\* decode, and carried both blobs.
C22_Witness ==
    /\ op.kind = "Read"
    /\ OpCompleted(op)
    /\ HasErrors(RemoteDiags(op))
    /\ LocalDiags(op) # <<>>
    /\ PrivateSent(op) = Blob \o RespBlob
    /\ PrivateReturned(op) = RespBlob \o Blob

\* A plan whose RPC completed.
PlanKinds == {"Plan", "PlanResourceChange"}

\* A path step is the decoding of a wire step: an attribute name gives an
\* attribute-named step, an integer key an integer-indexed step.
StepDecoded(step, raw) ==
    CASE raw.kind = "AttributeName" -> step.step = "GetAttr" /\ step.Name = raw.v
      [] raw.kind = "ElementKeyInt" ->
            step.step = "Index" /\ step.Key.ty = "number" /\ step.Key.v = raw.v
      [] raw.kind = "ElementKeyString" ->
            step.step = "Index" /\ step.Key.ty = "string" /\ step.Key.v = raw.v
      [] OTHER -> TRUE

\* C23: a plan returns exactly one path per RequiresReplace entry of the
\* response, in the order of the response; the wire paths [{attr: "id"}] and
\* [{index: 0}] give a path of one attribute-named step followed by a path of
\* one integer-indexed step.
C23_RequiresReplaceInOrder ==
    (op.kind \in PlanKinds /\ OpCompleted(op)) =>
        LET raws == op.ans.resp.RequiresReplace
            paths == op.out.res.RequiresReplace
        IN  /\ Len(paths) = Len(raws)
            /\ \A i \in 1..Len(raws) :
                  /\ Len(paths[i]) = Len(raws[i].Steps)
                  /\ \A k \in 1..Len(raws[i].Steps) :
                        StepDecoded(paths[i][k], raws[i].Steps[k])

\* A plan was answered with the two wire paths and returned the two paths.
C23_Witness ==
    /\ op.kind = "Plan"
    /\ OpCompleted(op)
    /\ op.ans.resp.RequiresReplace
          = << WirePath(<< WireStep("AttributeName", "id") >>),
               WirePath(<< WireStep("ElementKeyInt", 0) >>) >>
    /\ op.out.res.RequiresReplace
          = << << [step |-> "GetAttr", Name |-> "id"] >>,
               << [step |-> "Index", Key |-> [ty |-> "number", v |-> 0]] >> >>

\* The number of steps of a wire path: none for the absent path.
WireLen(raws) == IF raws.nil THEN 0 ELSE Len(raws.Steps)

\* A path is the decoding of a wire path: as many steps, each the decoding of
\* the wire step at its place, a placeholder where the wire step is not
\* recognised.
PathDecoded(path, raws) ==
    /\ Len(path) = WireLen(raws)
    /\ \A k \in 1..WireLen(raws) :
          /\ StepDecoded(path[k], raws.Steps[k])
          /\ raws.Steps[k].kind = "unset" <=> path[k].step = Nil

\* C24: decoding an attribute path is total and keeps the length: an absent
\* or empty step sequence gives the empty path, any other sequence a path with
\* as many steps, each decoded on its own, and a step that is not recognised
\* becomes a placeholder; neither the path nor the diagnostic that carries it
\* is lost.
C24_PathDecodeTotal ==
    /\ op.kind = "DecodePath" =>
          /\ op.out.returned
          /\ PathDecoded(op.out.res, op.req.raws)
    /\ op.kind = "DecodeDiagnostics" =>
          /\ op.out.returned
          /\ Len(op.out.res) = Len(op.req.raws)
          /\ \A i \in 1..Len(op.req.raws) :
                PathDecoded(op.out.res[i].Attribute, op.req.raws[i].Attribute)

\* A wire path of a known step and an unrecognised step was decoded.
C24_Witness ==
    /\ op.kind = "DecodePath"
    /\ op.req.raws = WirePath(<< WireStep("AttributeName", "id"), WireStep("unset", 0) >>)
    /\ op.out.res = << [step |-> "GetAttr", Name |-> "id"], [step |-> Nil] >>

\* C25: HasErrors of a diagnostics list is true exactly when some entry has
\* error severity; it is false for the empty list and for warnings only.
C25_HasErrors ==
    op.kind = "HasErrors" =>
        /\ op.out.res = (Cardinality({i \in 1..Len(op.req.diags) :
                                         op.req.diags[i].Severity = Error}) >= 1)
        /\ op.req.diags = <<>> => op.out.res = FALSE
        /\ (\A i \in 1..Len(op.req.diags) : op.req.diags[i].Severity = Warning)
              => op.out.res = FALSE

\* HasErrors was asked about a warning followed by an error.
C25_Witness ==
    /\ op.kind = "HasErrors"
    /\ Len(op.req.diags) >= 2
    /\ op.req.diags[1].Severity = Warning
    /\ op.req.diags[2].Severity = Error
    /\ op.out.res = TRUE

\* The construction must fail: the handle is no client stub, the GetSchema
\* RPC failed, or the remote diagnostics hold an error.
MustNotConstruct(o) ==
    \/ o.req.clientProxy # Conn
    \/ /\ o.out.sent # <<>>
       /\ \/ o.ans.err # Nil
          \/ \E i \in 1..Len(o.ans.resp.Diagnostics) :
                o.ans.resp.Diagnostics[i].Severity = "ERROR"

\* C26: NewProvider returns a provider only when the GetSchema RPC succeeded
\* and its diagnostics hold no error; when the RPC fails, when the remote
\* diagnostics hold an error, or when the connection handle is not the
\* expected client stub, it returns an error and no provider, without
\* aborting, and no schema is handed out.
C26_Construction ==
    op.kind = "NewProvider" =>
        /\ (op.out.returned /\ op.out.res.provider # None) => ~MustNotConstruct(op)
        /\ MustNotConstruct(op) =>
              /\ op.out.returned
              /\ ~aborted
              /\ op.out.res.provider = None
              /\ op.out.res.err # Nil

\* A step that is a provider-level resource operation.
ProviderOpStep ==
    /\ call' = call
    /\ ncalls' # ncalls
    /\ op'.kind \in ProviderKinds

\* The operation returned the empty result and the one error of the summary,
\* and issued no RPC.
RejectedLocally(o, summary) ==
    /\ o.out.returned
    /\ o.out.res = EmptyResultOf(o)
    /\ Len(o.out.diags) = 1
    /\ o.out.diags[1].Severity = Error
    /\ o.out.diags[1].Summary = summary
    /\ o.out.sent = <<>>

ProtocolUsageRejected ==
    /\ ~configured => RejectedLocally(op', "Provider unconfigured")
    /\ (configured /\ op'.req.TypeName \notin DOMAIN Schema.ManagedResourceTypes)
          => RejectedLocally(op', "Invalid resource type")

\* C27: provider-level PlanResourceChange, ApplyResourceChange, ReadResource
\* and ImportResourceState return exactly one "Provider unconfigured" error
\* and issue no RPC when the provider is Unconfigured, and return exactly one
\* "Invalid resource type" error and issue no RPC when the provider is
\* Configured and the type name is not in the schema.
C27_ProtocolUsageLocal ==
    [][ProviderOpStep => ProtocolUsageRejected]_vars

C29_AlreadyConfiguredOnlyAfterSuccess ==
    \A t \in Callers :
        (ConfigureDone(t) /\ call[t].diags = AlreadyConfiguredDiags)
            => call[t].seen.succeeded

\* The Configure calls whose remote configure RPC is in flight.
InFlight == {t \in Callers : Pending(t)}

\* C30: at any time at most one Configure call has its remote configure RPC
\* in flight, and no Configure call issues that RPC once some Configure call
\* has completed successfully.
C30_OneConfigureRPC ==
    /\ Cardinality(InFlight) <= 1
    /\ \A t \in Callers :
          (call[t].op = "Configure" /\ IssuedRPC(t)) => ~call[t].seen.succeeded

\* One Configure call has its RPC in flight after the RPC of another came
\* back.
C30_Witness ==
    \E t, u \in Callers :
        /\ Pending(t)
        /\ ConfigureDone(u)
        /\ IssuedRPC(u)

\* The managed operations that can carry a provider meta value. The request of
\* a managed Read has no provider meta field, so none is given to it.
MetaKinds == {"Plan", "Apply", "Read"}
MetaGiven(o) == o.kind # "Read" /\ ~IsNull(o.req.ProviderMeta)
MetaSent(o) == o.kind # "Read" /\ o.out.sent[1].ProviderMeta # NilDV
MetaEncoded(o) == \E i \in 1..Len(o.out.encoded) : o.out.encoded[i] = "ProviderMeta"

\* The client is the one the provider's ManagedResourceType returns for its
\* type name once the provider is configured.
ClientFromProvider(o) ==
    o.rt = IF impl = "p6atomic"
           THEN ManagedResourceTypeAtomic(TRUE, o.rt.typeName).rt
           ELSE ManagedResourceTypeMutex(TRUE, o.rt.typeName).rt

ValidateKinds == {"ValidateManagedResourceConfig", "ValidateDataResourceConfig"}
NamedTypeKnown(o) ==
    IF o.kind = "ValidateManagedResourceConfig"
    THEN o.req.TypeName \in DOMAIN Schema.ManagedResourceTypes
    ELSE o.req.TypeName \in DOMAIN Schema.DataResourceTypes
NamedTypeBlock(o) ==
    IF o.kind = "ValidateManagedResourceConfig"
    THEN Schema.ManagedResourceTypes[o.req.TypeName].Content
    ELSE Schema.DataResourceTypes[o.req.TypeName].Content

\* C32: the provider-level ValidateManagedResourceConfig and
\* ValidateDataResourceConfig encode the config against the schema of the
\* named type (and stop there when it does not conform) and send the type
\* name with the encoded config in the validate request.
C32_ValidateAgainstNamedType ==
    (op.kind \in ValidateKinds /\ op.out.returned /\ NamedTypeKnown(op))
    => LET e == encodeDynamicValue(op.req.Config, NamedTypeBlock(op))
       IN  IF HasErrors(e.diags)
           THEN op.out.sent = <<>> /\ op.out.diags = e.diags
           ELSE /\ Len(op.out.sent) = 1
                /\ op.out.sent[1].TypeName = op.req.TypeName
                /\ op.out.sent[1].Config = e.dv

\* The type encodings that parse, with the type each stands for, and the five
\* nesting codes with the mode each stands for.
ParsedTypes ==
    [ty \in {"json:string", "json:number", "json:dynamic"} |->
        CASE ty = "json:string" -> "cty.String"
          [] ty = "json:number" -> "cty.Number"
          [] OTHER              -> "cty.DynamicPseudoType"]
NestingModes ==
    [c \in {"SINGLE", "GROUP", "LIST", "SET", "MAP"} |->
        CASE c = "SINGLE" -> "NestingSingle"
          [] c = "GROUP"  -> "NestingGroup"
          [] c = "LIST"   -> "NestingList"
          [] c = "SET"    -> "NestingSet"
          [] OTHER        -> "NestingMap"]

\* The element of a wire list that a name ends up bound to: the last one of
\* that name.
LastOfName(names, i) == \A j \in (i + 1)..Len(names) : names[j] # names[i]

AttributeTranslated(attr, rawAttr) ==
    /\ attr.Type = IF rawAttr.Type \in DOMAIN ParsedTypes THEN ParsedTypes[rawAttr.Type]
                                                          ELSE "cty.DynamicPseudoType"
    /\ attr.Description = rawAttr.Description
    /\ attr.Required = rawAttr.Required
    /\ attr.Optional = rawAttr.Optional
    /\ attr.Computed = rawAttr.Computed
    /\ attr.Sensitive = rawAttr.Sensitive

\* ret is the translation of the wire block raw: empty for an absent block,
\* else one attribute per attribute name and one nested block per block type
\* name, each translated, the nested blocks recursively.
RECURSIVE BlockTranslated(_, _)
BlockTranslated(ret, raw) ==
    IF raw.nil THEN DOMAIN ret.Attributes = {} /\ DOMAIN ret.BlockTypes = {}
    ELSE LET attrNames  == [i \in DOMAIN raw.Attributes |-> raw.Attributes[i].Name]
             blockNames == [i \in DOMAIN raw.BlockTypes |-> raw.BlockTypes[i].TypeName]
         IN  /\ DOMAIN ret.Attributes = {attrNames[i] : i \in DOMAIN attrNames}
             /\ \A i \in DOMAIN attrNames :
                    LastOfName(attrNames, i) =>
                        AttributeTranslated(ret.Attributes[attrNames[i]], raw.Attributes[i])
             /\ DOMAIN ret.BlockTypes = {blockNames[i] : i \in DOMAIN blockNames}
             /\ \A i \in DOMAIN blockNames :
                    LastOfName(blockNames, i) =>
                        LET nested == ret.BlockTypes[blockNames[i]]
                            code   == raw.BlockTypes[i].Nesting
                        IN  /\ nested.Nesting = IF code \in DOMAIN NestingModes
                                                THEN NestingModes[code] ELSE ZeroMode
                            /\ BlockTranslated(nested.Block, raw.BlockTypes[i].Block)

\* C33: decodeProviderSchemaBlock translates every wire block recursively and
\* never fails on one element: an attribute whose type does not parse gets the
\* dynamic type and everything else is kept, the five nesting codes map
\* one-to-one to the five nesting modes, any other code leaves the zero mode,
\* and an absent wire block gives an empty block.
C33_SchemaBlockTranslated ==
    /\ op.kind = "DecodeSchemaBlock" =>
           /\ op.out.returned
           /\ op.out.diags = <<>>
           /\ BlockTranslated(op.out.res, op.req.raw)
    /\ \A c1, c2 \in DOMAIN NestingModes :
           /\ decodeNesting(c1) # ZeroMode
           /\ decodeNesting(c1) = decodeNesting(c2) => c1 = c2

\* A block with an attribute of unparseable type next to a well-typed one and
\* a nested block of unrecognised nesting code that holds a bad attribute too
\* was translated: both attributes and the nested block are in the result.
C33_Witness ==
    /\ op.kind = "DecodeSchemaBlock"
    /\ ~op.req.raw.nil
    /\ Len(op.req.raw.Attributes) = 2
    /\ op.req.raw.Attributes[1].Name = "a"
    /\ op.req.raw.Attributes[1].Type = "garbage"
    /\ op.req.raw.Attributes[2].Name = "b"
    /\ op.req.raw.Attributes[2].Type = "json:number"
    /\ Len(op.req.raw.BlockTypes) = 1
    /\ op.req.raw.BlockTypes[1].TypeName = "n"
    /\ op.req.raw.BlockTypes[1].Nesting = "code-99"
    /\ ~op.req.raw.BlockTypes[1].Block.nil
    /\ op.req.raw.BlockTypes[1].Block.Attributes[1].Type = "garbage"
    /\ op.out.res.Attributes["a"].Type = "cty.DynamicPseudoType"
    /\ op.out.res.Attributes["b"].Type = "cty.Number"
    /\ op.out.res.BlockTypes["n"].Nesting = ZeroMode
    /\ op.out.res.BlockTypes["n"].Block.Attributes["x"].Type = "cty.DynamicPseudoType"

\* The severity a wire diagnostic is decoded with, as claimed: error for
\* ERROR, warning for WARNING, error again for any other code.
ClaimedSeverity(raw) ==
    IF raw.Severity = "WARNING" THEN Warning ELSE Error
Unclassified(raw) == raw.Severity \notin {"ERROR", "WARNING"}

\* C34: decodeDiagnostics returns one diagnostic per wire diagnostic, in wire
\* order, with ERROR decoded as error and WARNING as warning; a wire
\* diagnostic of any other severity code is decoded as an error, so HasErrors
\* holds of the result and the Configure call whose response carried it
\* leaves the provider Unconfigured.
C34_UnknownSeverityIsError ==
    [][\A t \in Callers :
          (ReturnsFromRPC(t) /\ call'[t].ans.err = Nil) =>
              LET raws  == call'[t].ans.resp.Diagnostics
                  diags == call'[t].diags
              IN  /\ Len(diags) = Len(raws)
                  /\ \A i \in 1..Len(raws) :
                        /\ diags[i].Severity = ClaimedSeverity(raws[i])
                        /\ diags[i].Summary = raws[i].Summary
                  /\ (\E i \in 1..Len(raws) : Unclassified(raws[i])) =>
                        /\ HasErrors(diags)
                        /\ ~configured']_vars

\* A Configure call returned from an RPC whose response carried a warning
\* followed by a diagnostic of unlisted severity: it returned both, the second
\* as an error, and the provider is Unconfigured.
C34_Witness ==
    \E t \in Callers :
        /\ ConfigureDone(t)
        /\ call[t].sent # <<>>
        /\ call[t].ans.err = Nil
        /\ Len(call[t].ans.resp.Diagnostics) = 2
        /\ Unclassified(call[t].ans.resp.Diagnostics[2])
        /\ Len(call[t].diags) = 2
        /\ call[t].diags[1].Severity = Warning
        /\ call[t].diags[2].Severity = Error
        /\ ~configured

\* A PrepareConfig of protocol 5 that returned, and the prepared config of the
\* response it consumed: whether its binary field holds a value of the
\* provider config block's type.
PreparedV5Returned(o) == o.kind = "PrepareConfig" /\ impl = "p5" /\ o.out.returned
PreparedDecodes(raw) ==
    /\ Len(raw.Msgpack) = 4
    /\ raw.Msgpack[1] = "msgpack"
    /\ raw.Msgpack[2] = Schema.ProviderConfig.implied

\* C35: PrepareConfig of protocol 5 returns the caller's config when the
\* config does not encode (and issues no RPC) and when the RPC fails at
\* transport level, the decoded prepared config when the response carries
\* one, and the unknown placeholder, not the caller's config, when the
\* response carries none.
C35_PrepareConfigResult ==
    PreparedV5Returned(op) =>
        /\ ~ConfigConforms(op.req.Config) =>
              /\ op.out.sent = <<>>
              /\ op.out.res.Value = op.req.Config
        /\ (op.out.sent # <<>> /\ op.ans.err # Nil) => op.out.res.Value = op.req.Config
        /\ (op.out.sent # <<>> /\ op.ans.err = Nil) =>
              IF op.ans.resp.PreparedConfig.nil
              THEN /\ op.out.res.Value = DynamicVal
                   /\ op.out.res.Value # op.req.Config
                   /\ op.out.decoded = <<>>
              ELSE /\ op.out.decoded = << "PreparedConfig" >>
                   /\ IF PreparedDecodes(op.ans.resp.PreparedConfig)
                      THEN op.out.res.Value = FieldValue(op.ans.resp.PreparedConfig.Msgpack)
                      ELSE op.out.res.Value = DynamicVal /\ HasErrors(op.out.diags)

\* A PrepareConfig of protocol 5 got a response without a prepared config and
\* without diagnostics: it returned the unknown placeholder and no diagnostic.
C35_Witness ==
    /\ PreparedV5Returned(op)
    /\ op.out.sent # <<>>
    /\ op.ans.err = Nil
    /\ op.ans.resp.PreparedConfig.nil
    /\ op.ans.resp.Diagnostics = <<>>
    /\ op.out.res.Value = DynamicVal
    /\ op.out.diags = <<>>

====
